---- MODULE Spec2Model ----
(***************************************************************************)
(* A model of the GTS (Global Type System) TypeScript library: the         *)
(* identifier codec (Gts), the extractor (GtsExtractor), the registry      *)
(* (GtsStore) with instance validation and casting, the library facade     *)
(* (GTS) and the helper classes GtsQuery, GtsCast and GtsCompatibility.    *)
(*                                                                         *)
(* Strings are TLA+ strings; a character is a string of length 1.          *)
(* JSON values are tagged records [t |-> tag, v |-> payload]; a JSON       *)
(* object's payload is a function from its keys to JSON values.            *)
(* A thrown host-language error is the record field ok = FALSE of a        *)
(* parse result, or the outcome "thrown" of an operation.                  *)
(***************************************************************************)
EXTENDS Integers, Sequences, FiniteSets, TLC

VARIABLES
    validateRefs,   \* GtsStore.config.validateRefs
    byId,           \* GtsStore.byId: the Map, as the sequence of its entities in key order
    last            \* the last library call: its name, arguments, outcome and result

vars == <<validateRefs, byId, last>>

-----------------------------------------------------------------------------
(* Bounds of the model                                                     *)

MaxEntities == 3    \* the registry holds at most this many keys
MaxLimit == 1       \* query limits are drawn from 0..MaxLimit

-----------------------------------------------------------------------------
(* Program constants                                                       *)

GTS_PREFIX == "gts."
GTS_URI_PREFIX == "gts://"
MAX_ID_LENGTH == 1024
NoMinor == -1       \* verMinor: undefined

-----------------------------------------------------------------------------
(* JavaScript string primitives                                            *)

LowerChars == {"a","b","c","d","e","f","g","h","i","j","k","l","m",
               "n","o","p","q","r","s","t","u","v","w","x","y","z"}
UpperChars == {"A","B","C","D","E","F","G","H","I","J","K","L","M",
               "N","O","P","Q","R","S","T","U","V","W","X","Y","Z"}
DigitChars == {"0","1","2","3","4","5","6","7","8","9"}
WhiteSpace == {" ", "\t", "\n"}

CharAt(s, i) == SubSeq(s, i, i)

\* Math.min
Min(a, b) == IF a < b THEN a ELSE b

Substring(s, from) == SubSeq(s, from + 1, Len(s))

StartsWith(s, p) == Len(p) <= Len(s) /\ SubSeq(s, 1, Len(p)) = p

EndsWith(s, p) == Len(p) <= Len(s) /\ SubSeq(s, Len(s) - Len(p) + 1, Len(s)) = p

Includes(s, sub) == \E i \in 1..(Len(s) - Len(sub) + 1) : SubSeq(s, i, i + Len(sub) - 1) = sub

\* 0-based index of the first / last occurrence of the character c, -1 if none
IndexOf(s, c) ==
    IF \E i \in 1..Len(s) : CharAt(s, i) = c
    THEN (CHOOSE i \in 1..Len(s) : CharAt(s, i) = c /\ \A j \in 1..(i-1) : CharAt(s, j) # c) - 1
    ELSE -1

LastIndexOf(s, c) ==
    IF \E i \in 1..Len(s) : CharAt(s, i) = c
    THEN (CHOOSE i \in 1..Len(s) : CharAt(s, i) = c /\ \A j \in (i+1)..Len(s) : CharAt(s, j) # c) - 1
    ELSE -1

CountChar(s, c) == Cardinality({i \in 1..Len(s) : CharAt(s, i) = c})

RECURSIVE TrimLeft(_)
TrimLeft(s) == IF Len(s) > 0 /\ CharAt(s, 1) \in WhiteSpace THEN TrimLeft(Tail(s)) ELSE s

RECURSIVE TrimRight(_)
TrimRight(s) ==
    IF Len(s) > 0 /\ CharAt(s, Len(s)) \in WhiteSpace
    THEN TrimRight(SubSeq(s, 1, Len(s) - 1)) ELSE s

Trim(s) == TrimRight(TrimLeft(s))

\* raw !== raw.toLowerCase()
HasUpperCase(s) == \E i \in 1..Len(s) : CharAt(s, i) \in UpperChars

\* s.split(sep) for a one-character separator
RECURSIVE SplitAcc(_, _, _, _)
SplitAcc(s, sep, cur, acc) ==
    IF Len(s) = 0 THEN Append(acc, cur)
    ELSE IF CharAt(s, 1) = sep THEN SplitAcc(Tail(s), sep, "", Append(acc, cur))
    ELSE SplitAcc(Tail(s), sep, cur \o CharAt(s, 1), acc)

Split(s, sep) == SplitAcc(s, sep, "", <<>>)

\* the strings n.toString() can produce for an integer n >= 0
IsCanonicalNat(s) ==
    /\ Len(s) > 0
    /\ \A i \in 1..Len(s) : CharAt(s, i) \in DigitChars
    /\ (Len(s) > 1 => CharAt(s, 1) # "0")

DigitVal(c) == CHOOSE n \in 0..9 : CharAt("0123456789", n + 1) = c

RECURSIVE ParseNat(_, _)
ParseNat(s, acc) == IF Len(s) = 0 THEN acc ELSE ParseNat(Tail(s), 10 * acc + DigitVal(CharAt(s, 1)))

\* Number.prototype.toString for an integer n >= 0
RECURSIVE NatToString(_)
NatToString(n) ==
    IF n < 10 THEN CharAt("0123456789", n + 1)
    ELSE NatToString(n \div 10) \o CharAt("0123456789", (n % 10) + 1)

\* SEGMENT_TOKEN_REGEX = /^[a-z_][a-z0-9_]*$/
SEGMENT_TOKEN_REGEX(tok) ==
    /\ Len(tok) > 0
    /\ CharAt(tok, 1) \in LowerChars \cup {"_"}
    /\ \A i \in 2..Len(tok) : CharAt(tok, i) \in LowerChars \cup DigitChars \cup {"_"}

-----------------------------------------------------------------------------
(* Gts: the identifier codec (src/src/gts.ts)                              *)

\* Gts.splitPreservingTilde
RECURSIVE SplitTildeAcc(_, _, _)
SplitTildeAcc(s, cur, parts) ==
    IF Len(s) = 0 THEN (IF cur # "" THEN Append(parts, cur) ELSE parts)
    ELSE IF CharAt(s, 1) = "~" THEN SplitTildeAcc(Tail(s), "", Append(parts, cur \o "~"))
    ELSE SplitTildeAcc(Tail(s), cur \o CharAt(s, 1), parts)

IsNotLoneTilde(p) == p # "~"

splitPreservingTilde(s) == SelectSeq(SplitTildeAcc(s, "", <<>>), IsNotLoneTilde)

\* the segment record parseSegment starts from
NewSegment(num, offset, segment) ==
    [num |-> num, offset |-> offset, segment |-> Trim(segment),
     vendor |-> "", package |-> "", namespace |-> "", type |-> "",
     verMajor |-> 0, verMinor |-> NoMinor, isType |-> FALSE, isWildcard |-> FALSE]

SegOk(seg) == [ok |-> TRUE, seg |-> seg, error |-> ""]
\* a thrown InvalidSegmentError, with its message
SegErr(seg, cause) ==
    [ok |-> FALSE, seg |-> seg,
     error |-> "Invalid GTS segment #" \o NatToString(seg.num) \o " @ offset " \o NatToString(seg.offset)
               \o ": '" \o seg.segment \o "': " \o cause]

\* Gts.parseSegment, from the token loop on: tokens of the segment without its '~'
ParseTokens(seg0, workingSegment) ==
    LET Fill(tokens, n) ==
            LET majorStr == Substring(tokens[5], 1)
                seg1 == [seg0 EXCEPT !.vendor = tokens[1]]
                seg2 == [seg0 EXCEPT !.vendor = tokens[1], !.package = tokens[2]]
                seg3 == [seg0 EXCEPT !.vendor = tokens[1], !.package = tokens[2], !.namespace = tokens[3]]
                seg4 == [seg0 EXCEPT !.vendor = tokens[1], !.package = tokens[2], !.namespace = tokens[3],
                                     !.type = tokens[4]]
                seg5 == [seg0 EXCEPT !.vendor = tokens[1], !.package = tokens[2], !.namespace = tokens[3],
                                     !.type = tokens[4], !.verMajor = ParseNat(Substring(tokens[5], 1), 0)]
                seg6 == [seg0 EXCEPT !.vendor = tokens[1], !.package = tokens[2], !.namespace = tokens[3],
                                     !.type = tokens[4], !.verMajor = ParseNat(Substring(tokens[5], 1), 0),
                                     !.verMinor = ParseNat(tokens[6], 0)]
                \* the segment and the cause of the error thrown, if one is thrown
                failure ==
                    IF \E t \in 1..n : tokens[t] = "" THEN <<seg0, "Empty token">>
                    ELSE IF n > 6 THEN <<seg0, "Too many tokens">>
                    ELSE IF ~EndsWith(workingSegment, "*") /\ n < 5 THEN <<seg0, "Too few tokens">>
                    ELSE IF ~EndsWith(workingSegment, "*") /\ \E t \in 1..4 : ~SEGMENT_TOKEN_REGEX(tokens[t])
                         THEN <<seg0, "Invalid segment token: "
                                      \o tokens[CHOOSE t \in 1..4 :
                                                    /\ ~SEGMENT_TOKEN_REGEX(tokens[t])
                                                    /\ \A u \in 1..(t - 1) : SEGMENT_TOKEN_REGEX(tokens[u])]>>
                    ELSE IF \E t \in 1..Min(n, 4) : tokens[t] = "*" THEN <<>>
                    ELSE IF n < 5 \/ tokens[5] = "*" THEN <<>>
                    ELSE IF ~StartsWith(tokens[5], "v") THEN <<seg4, "Major version must start with 'v'">>
                    ELSE IF ~IsCanonicalNat(majorStr) THEN <<seg4, "Major version must be an integer">>
                    ELSE IF n < 6 \/ tokens[6] = "*" THEN <<>>
                    ELSE IF ~IsCanonicalNat(tokens[6]) THEN <<seg5, "Minor version must be an integer">>
                    ELSE <<>>
                \* the segment returned when nothing is thrown
                parsed ==
                    IF tokens[1] = "*" THEN [seg0 EXCEPT !.isWildcard = TRUE]
                    ELSE IF n = 1 THEN seg1
                    ELSE IF tokens[2] = "*" THEN [seg1 EXCEPT !.isWildcard = TRUE]
                    ELSE IF n = 2 THEN seg2
                    ELSE IF tokens[3] = "*" THEN [seg2 EXCEPT !.isWildcard = TRUE]
                    ELSE IF n = 3 THEN seg3
                    ELSE IF tokens[4] = "*" THEN [seg3 EXCEPT !.isWildcard = TRUE]
                    ELSE IF n = 4 THEN seg4
                    ELSE IF tokens[5] = "*" THEN [seg4 EXCEPT !.isWildcard = TRUE]
                    ELSE IF n = 5 THEN seg5
                    ELSE IF tokens[6] = "*" THEN [seg5 EXCEPT !.isWildcard = TRUE]
                    ELSE seg6
                Finish(thrown) == IF thrown # <<>> THEN SegErr(thrown[1], thrown[2]) ELSE SegOk(parsed)
            IN  Finish(failure)
    IN  Fill(Split(workingSegment, "."), Len(Split(workingSegment, ".")))

\* Gts.parseSegment
parseSegment(num, offset, segment) ==
    LET Parse(seg, ws, tildeCount) ==
            LET isType == tildeCount = 1 /\ EndsWith(ws, "~")
            IN  IF ws = "" \/ ws = "~" THEN SegErr(seg, "Empty segment")
                ELSE IF tildeCount > 1 THEN SegErr(seg, "Too many '~' characters")
                ELSE IF tildeCount = 1 /\ ~EndsWith(ws, "~") THEN SegErr(seg, " '~' must be at the end")
                ELSE IF Includes(IF isType THEN SubSeq(ws, 1, Len(ws) - 1) ELSE ws, "..")
                     THEN SegErr(seg, "Empty token (double dots)")
                ELSE ParseTokens([seg EXCEPT !.isType = isType],
                                 IF isType THEN SubSeq(ws, 1, Len(ws) - 1) ELSE ws)
    IN  Parse(NewSegment(num, offset, segment), Trim(segment), CountChar(Trim(segment), "~"))

\* the loop of Gts.parseGtsID over the parts: the segments so far, or the first error
RECURSIVE ParseParts(_, _, _, _)
ParseParts(parts, i, offset, segs) ==
    LET Step(r) ==
            IF ~r.ok THEN [ok |-> FALSE, segments |-> <<>>, error |-> r.error]
            ELSE ParseParts(parts, i + 1, offset + Len(parts[i]), Append(segs, r.seg))
    IN  IF i > Len(parts) THEN [ok |-> TRUE, segments |-> segs, error |-> ""]
        ELSE Step(parseSegment(i, offset, parts[i]))

\* a thrown error, with its message
Thrown(message) == [ok |-> FALSE, id |-> "", segments |-> <<>>, error |-> message]

\* a thrown InvalidGtsIDError
IdErr(gtsId, cause) == Thrown("Invalid GTS identifier: " \o gtsId \o ": " \o cause)

\* Gts.parseGtsID; ok = FALSE stands for the thrown InvalidGtsIDError / InvalidSegmentError
parseGtsID(id) ==
    LET Segments(raw, r) ==
            IF ~r.ok THEN Thrown(r.error)
            ELSE IF Len(r.segments) = 0 THEN IdErr(id, "No valid segments found")
            ELSE [ok |-> TRUE, id |-> raw, segments |-> r.segments, error |-> ""]
        Parse(raw) ==
            LET cause ==
                    IF HasUpperCase(raw) THEN "Must be lower case"
                    ELSE IF Includes(raw, "-") THEN "Must not contain '-'"
                    ELSE IF ~StartsWith(raw, GTS_PREFIX) THEN "Does not start with 'gts.'"
                    ELSE IF Len(raw) > MAX_ID_LENGTH THEN "Too long"
                    ELSE IF Includes(raw, "..") THEN "Double dots not allowed"
                    ELSE IF EndsWith(raw, ".") THEN "Cannot end with a dot"
                    ELSE IF Includes(raw, "~~") THEN "Double tildes not allowed"
                    ELSE IF raw = GTS_PREFIX \/ raw = GTS_PREFIX \o "~" THEN "ID cannot be just the prefix"
                    ELSE ""
            IN  IF cause # "" THEN IdErr(id, cause)
                ELSE Segments(raw, ParseParts(splitPreservingTilde(Substring(raw, Len(GTS_PREFIX))),
                                              1, Len(GTS_PREFIX), <<>>))
    IN  Parse(Trim(id))

\* Gts.isValidGtsID
isValidGtsID(id) == StartsWith(id, GTS_PREFIX) /\ parseGtsID(id).ok

\* Gts.validateGtsID
validateGtsID(id) ==
    LET Result(r) == [id |-> id, ok |-> r.ok, valid |-> r.ok, error |-> r.error]
    IN  Result(parseGtsID(id))

\* Gts.toUUID: uuidv5(id, GTS_NAMESPACE) is a hash of the text of id; the uuid
\* is given by the text it is the hash of, two texts have two uuids
toUUID(id) == "uuid5(" \o id \o ")"

\* Gts.idToUUID
idToUUID(id) ==
    LET Result(r) == IF r.ok THEN [id |-> id, uuid |-> toUUID(id), error |-> ""]
                     ELSE [id |-> id, uuid |-> "", error |-> r.error]
    IN  Result(parseGtsID(id))

\* Gts.parseID
parseID(id) ==
    LET Result(r) == [ok |-> r.ok, segments |-> r.segments, error |-> r.error]
    IN  Result(parseGtsID(id))

\* Gts.validateWildcard
validateWildcard(pattern) ==
    LET Validate(p, wildcardCount) ==
            LET cause ==
                    IF ~StartsWith(p, GTS_PREFIX) THEN "Does not start with 'gts.'"
                    ELSE IF wildcardCount > 1 THEN "The wildcard '*' token is allowed only once"
                    ELSE IF wildcardCount = 1 /\ ~EndsWith(p, ".*") /\ ~EndsWith(p, "~*")
                    THEN "The wildcard '*' token is allowed only at the end of the pattern"
                    ELSE ""
            IN  IF cause # "" THEN IdErr(pattern, cause) ELSE parseGtsID(p)
    IN  Validate(Trim(pattern), CountChar(Trim(pattern), "*"))

\* Gts.matchSegments, one pattern segment that is a wildcard
MatchWildcardSegment(pSeg, cSeg) ==
    /\ ~(pSeg.vendor # "" /\ pSeg.vendor # cSeg.vendor)
    /\ ~(pSeg.package # "" /\ pSeg.package # cSeg.package)
    /\ ~(pSeg.namespace # "" /\ pSeg.namespace # cSeg.namespace)
    /\ ~(pSeg.type # "" /\ pSeg.type # cSeg.type)
    /\ ~(pSeg.verMajor # 0 /\ pSeg.verMajor # cSeg.verMajor)
    /\ ~(pSeg.verMinor # NoMinor /\ (cSeg.verMinor = NoMinor \/ pSeg.verMinor # cSeg.verMinor))
    /\ ~(pSeg.isType /\ pSeg.isType # cSeg.isType)

\* a matchSegments that wants the minor versions equal whether or not the
\* pattern has one
MatchExactSegmentSameMinor(pSeg, cSeg) ==
    /\ pSeg.vendor = cSeg.vendor
    /\ pSeg.package = cSeg.package
    /\ pSeg.namespace = cSeg.namespace
    /\ pSeg.type = cSeg.type
    /\ pSeg.verMajor = cSeg.verMajor
    /\ pSeg.verMinor = cSeg.verMinor
    /\ pSeg.isType = cSeg.isType

\* Gts.matchSegments, one pattern segment that is not a wildcard
MatchExactSegment(pSeg, cSeg) ==
    /\ pSeg.vendor = cSeg.vendor
    /\ pSeg.package = cSeg.package
    /\ pSeg.namespace = cSeg.namespace
    /\ pSeg.type = cSeg.type
    /\ pSeg.verMajor = cSeg.verMajor
    /\ (pSeg.verMinor # NoMinor => cSeg.verMinor # NoMinor /\ pSeg.verMinor = cSeg.verMinor)
    /\ pSeg.isType = cSeg.isType

\* Gts.matchSegments
RECURSIVE MatchFrom(_, _, _)
MatchFrom(patternSegs, candidateSegs, i) ==
    IF i > Len(patternSegs) THEN TRUE
    ELSE IF patternSegs[i].isWildcard THEN MatchWildcardSegment(patternSegs[i], candidateSegs[i])
    ELSE MatchExactSegment(patternSegs[i], candidateSegs[i]) /\ MatchFrom(patternSegs, candidateSegs, i + 1)

matchSegments(patternSegs, candidateSegs) ==
    IF Len(patternSegs) > Len(candidateSegs) THEN FALSE
    ELSE MatchFrom(patternSegs, candidateSegs, 1)

\* Gts.wildcardMatch
wildcardMatch(candidate, pattern) ==
    IF Includes(pattern.id, "*") /\ (CountChar(pattern.id, "*") > 1 \/ ~EndsWith(pattern.id, "*"))
    THEN FALSE
    ELSE matchSegments(pattern.segments, candidate.segments)

\* Gts.matchIDPattern
matchIDPattern(candidate, pattern) ==
    LET Result(c, p) ==
            [match |-> c.ok /\ p.ok /\ wildcardMatch(c, p), pattern |-> pattern, candidate |-> candidate,
             error |-> IF ~c.ok THEN c.error ELSE IF ~p.ok THEN p.error ELSE ""]
    IN  Result(parseGtsID(candidate), validateWildcard(pattern))

-----------------------------------------------------------------------------
(* JSON values                                                             *)

JUndef == [t |-> "undef", v |-> 0]      \* JavaScript undefined: an absent property
JNull == [t |-> "null", v |-> 0]
JBool(b) == [t |-> "bool", v |-> b]
JNum(n) == [t |-> "num", v |-> n]
JStr(s) == [t |-> "str", v |-> s]
JArr(items) == [t |-> "arr", v |-> items]
JObj(fields) == [t |-> "obj", v |-> fields]
EmptyObj == JObj(<<>>)

IsStr(x) == x.t = "str"
IsObj(x) == x.t = "obj"
IsArr(x) == x.t = "arr"

\* typeof x === 'object' && x !== null
IsObjectLike(x) == x.t \in {"obj", "arr"}

\* key in x
HasProp(x, key) == IsObj(x) /\ key \in DOMAIN x.v

\* x[key]
GetProp(x, key) == IF HasProp(x, key) THEN x.v[key] ELSE JUndef

\* JavaScript truthiness
Truthy(x) ==
    CASE x.t = "undef" -> FALSE
      [] x.t = "null" -> FALSE
      [] x.t = "bool" -> x.v
      [] x.t = "num" -> x.v # 0
      [] x.t = "str" -> x.v # ""
      [] OTHER -> TRUE

\* a || b
OrElse(a, b) == IF Truthy(a) THEN a ELSE b

\* obj[key] = value on a plain object
Put(x, key, value) == JObj([k \in DOMAIN x.v \cup {key} |-> IF k = key THEN value ELSE x.v[k]])

\* an optional string (string | null | undefined): <<>> is absent, <<s>> is the string s
None == <<>>
Some(s) == <<s>>

-----------------------------------------------------------------------------
(* GtsExtractor (src/src/extract.ts)                                       *)

entityIdFields == <<"$id", "$$id", "gtsId", "gtsIid", "gtsOid", "gtsI", "gts_id", "gts_oid", "gts_iid", "id">>
schemaIdFields == <<"$schema", "$$schema", "gtsTid", "gtsType", "gtsT", "gts_t", "gts_tid", "gts_type", "type", "schema">>

\* GtsExtractor.normalizeValue
normalizeValue(value) ==
    LET normalized == Trim(value)
    IN  IF StartsWith(normalized, GTS_URI_PREFIX)
        THEN Substring(normalized, Len(GTS_URI_PREFIX))
        ELSE normalized

\* GtsExtractor.findFirstValidField: <<>> for null, else <<[field, value]>>
RECURSIVE FindFrom(_, _, _, _)
FindFrom(content, fields, i, requireValid) ==
    LET Try(field, value) ==
            IF /\ HasProp(content, field)
               /\ IsStr(GetProp(content, field))
               /\ value # ""
               /\ (requireValid => isValidGtsID(value))
            THEN <<[field |-> field, value |-> value]>>
            ELSE FindFrom(content, fields, i + 1, requireValid)
    IN  IF i > Len(fields) THEN <<>>
        ELSE Try(fields[i], normalizeValue(GetProp(content, fields[i]).v))

findFirstValidField(content, fields, requireValid) ==
    IF ~IsObjectLike(content) THEN <<>> ELSE FindFrom(content, fields, 1, requireValid)

\* GtsExtractor.isJsonSchema
isJsonSchema(content) ==
    LET schemaField == OrElse(GetProp(content, "$schema"), GetProp(content, "$$schema"))
    IN  /\ IsObjectLike(content)
        /\ IsStr(schemaField)
        /\ \/ Includes(schemaField.v, "json-schema.org")
           \/ StartsWith(schemaField.v, GTS_URI_PREFIX)
           \/ StartsWith(schemaField.v, GTS_PREFIX)

\* the hasChain flag of GtsExtractor.extractID
HasChain(id) ==
    LET CheckPart(afterTilde) ==
            IF EndsWith(afterTilde, "~") THEN SubSeq(afterTilde, 1, Len(afterTilde) - 1) ELSE afterTilde
    IN  /\ id # ""
        /\ isValidGtsID(id)
        /\ IndexOf(id, "~") # -1
        /\ Len(CheckPart(Substring(id, IndexOf(id, "~") + 1))) > 0

IsNotDollarId(f) == f # "$id" /\ f # "$$id"

\* GtsExtractor.extractID, the schema branch: <<schemaId, selectedSchemaIdField>>
ExtractSchemaBranch(content, id, selectedEntityField, hasChain) ==
    LET Chain(lastTilde) ==
            IF lastTilde > 0
            THEN <<Some(SubSeq(id, 1, lastTilde + 1)), selectedEntityField>>
            ELSE <<None, None>>
        FromSchemaField(schemaResult) ==
            IF schemaResult # <<>>
            THEN <<Some(schemaResult[1].value), Some(schemaResult[1].field)>>
            ELSE <<None, None>>
    IN  IF hasChain
        THEN Chain(LastIndexOf(IF EndsWith(id, "~") THEN SubSeq(id, 1, Len(id) - 1) ELSE id, "~"))
        ELSE FromSchemaField(findFirstValidField(content, <<"$schema", "$$schema">>, FALSE))

\* GtsExtractor.extractID, the instance branch: <<schemaId, selectedSchemaIdField>>
ExtractInstanceBranch(content, id, selectedEntityField, hasChain) ==
    LET Steps(lastTilde, schemaResult) ==
            LET isIdFromDollarId == selectedEntityField = Some("$id") \/ selectedEntityField = Some("$$id")
                chain == <<Some(SubSeq(id, 1, lastTilde + 1)), selectedEntityField>>
                step1 == hasChain /\ ~isIdFromDollarId /\ lastTilde > 0 /\ ~EndsWith(id, "~")
                step2 == ~step1 /\ ~isIdFromDollarId /\ schemaResult # <<>>
                step3 == ~step1 /\ ~step2 /\ hasChain /\ ~EndsWith(id, "~") /\ lastTilde > 0
            IN  IF step1 \/ step3 THEN chain
                ELSE IF step2 THEN <<Some(schemaResult[1].value), Some(schemaResult[1].field)>>
                ELSE <<None, None>>
    IN  Steps(LastIndexOf(id, "~"),
              findFirstValidField(content, SelectSeq(schemaIdFields, IsNotDollarId), TRUE))

\* GtsExtractor.extractID(content, schemaContent); schemaContent is JUndef when not given
extractID(content, schemaContent) ==
    LET Result(isSchema, id, selectedEntityField, fromContent, schemaEntityResult) ==
            [id |-> id,
             schema_id |-> IF fromContent[1] = None /\ IsObjectLike(schemaContent) /\ schemaEntityResult # <<>>
                           THEN Some(schemaEntityResult[1].value)
                           ELSE fromContent[1],
             selected_entity_field |-> selectedEntityField,
             selected_schema_id_field |-> fromContent[2],
             is_schema |-> isSchema]
        FromContent(isSchema, id, selectedEntityField, hasChain) ==
            Result(isSchema, id, selectedEntityField,
                   IF ~IsObjectLike(content) THEN <<None, None>>
                   ELSE IF isSchema THEN ExtractSchemaBranch(content, id, selectedEntityField, hasChain)
                   ELSE ExtractInstanceBranch(content, id, selectedEntityField, hasChain),
                   findFirstValidField(schemaContent, entityIdFields, FALSE))
        FromEntity(isSchema, entityResult) ==
            FromContent(isSchema,
                        IF entityResult # <<>> THEN entityResult[1].value ELSE "",
                        IF entityResult # <<>> THEN Some(entityResult[1].field) ELSE None,
                        entityResult # <<>> /\ HasChain(entityResult[1].value))
    IN  FromEntity(isJsonSchema(content), findFirstValidField(content, entityIdFields, FALSE))

-----------------------------------------------------------------------------
(* createJsonEntity and findReferences (store.ts)                          *)

\* findReferences: the reference ids found in a JSON value
RECURSIVE findReferences(_)
findReferences(obj) ==
    LET Normalized(ref) ==
            IF StartsWith(ref, GTS_URI_PREFIX) THEN Substring(ref, Len(GTS_URI_PREFIX)) ELSE ref
        \* the strings under $ref (normalised) and under x-gts-ref
        Candidates(ref, xref) ==
            (IF IsStr(ref) THEN {Normalized(ref.v)} ELSE {}) \cup (IF IsStr(xref) THEN {xref.v} ELSE {})
    IN  IF IsObj(obj)
        THEN {id \in Candidates(GetProp(obj, "$ref"), GetProp(obj, "x-gts-ref")) : isValidGtsID(id)}
             \cup UNION {findReferences(obj.v[k]) : k \in DOMAIN obj.v}
        ELSE IF IsArr(obj)
        THEN UNION {findReferences(obj.v[i]) : i \in 1..Len(obj.v)}
        ELSE {}

\* createJsonEntity
createJsonEntity(content) ==
    LET Entity(extractResult) ==
            [id |-> extractResult.id,
             schemaId |-> extractResult.schema_id,
             content |-> content,
             isSchema |-> extractResult.is_schema,
             references |-> findReferences(content)]
    IN  Entity(extractID(content, JUndef))

-----------------------------------------------------------------------------
(* GtsStore: the registry (store.ts)                                       *)

\* the keys of the Map, in its enumeration order
Keys(store) == [i \in 1..Len(store) |-> store[i].id]

KeySet(store) == {store[i].id : i \in 1..Len(store)}

\* Map.has
MapHas(store, id) == id \in KeySet(store)

\* a Map.set that moves a replaced key to the end (delete, then insert)
MapSetMovesKey(store, entity) ==
    LET IsOther(e) == e.id # entity.id
    IN  Append(SelectSeq(store, IsOther), entity)

\* Map.set: an existing key keeps its position, a new key goes last
MapSet(store, entity) ==
    IF MapHas(store, entity.id)
    THEN [i \in 1..Len(store) |-> IF store[i].id = entity.id THEN entity ELSE store[i]]
    ELSE Append(store, entity)

\* GtsStore.get: <<>> for undefined, else <<entity>>
get(store, id) ==
    IF MapHas(store, id)
    THEN <<store[CHOOSE i \in 1..Len(store) : store[i].id = id]>>
    ELSE <<>>

\* GtsStore.getAll
getAll(store) == store

\* a register that inserts the entity before it looks at the references
registerInsertsFirst(store, validate, entity) ==
    IF validate /\ \E ref \in entity.references : ~MapHas(store, ref)
    THEN [thrown |-> TRUE, error |-> "Unresolved reference", store |-> MapSet(store, entity)]
    ELSE [thrown |-> FALSE, error |-> "", store |-> MapSet(store, entity)]

\* a register that stops looking once one reference resolves
registerAnyReference(store, validate, entity) ==
    IF validate /\ entity.references # {} /\ \A ref \in entity.references : ~MapHas(store, ref)
    THEN [thrown |-> TRUE, error |-> "Unresolved reference", store |-> store]
    ELSE [thrown |-> FALSE, error |-> "", store |-> MapSet(store, entity)]

\* GtsStore.register: the store after the call and whether the call threw.
\* (The call also hands a schema to the JSON-Schema engine's own table, which
\* only the engine's $ref resolution reads; no modelled schema uses $ref.)
register(store, validate, entity) ==
    IF validate /\ \E ref \in entity.references : ~MapHas(store, ref)
    THEN [thrown |-> TRUE, error |-> "Unresolved reference", store |-> store]
    ELSE [thrown |-> FALSE, error |-> "", store |-> MapSet(store, entity)]

\* the loop of GtsStore.query from the i-th key on
RECURSIVE QueryFrom(_, _, _, _, _)
QueryFrom(store, pattern, maxResults, i, results) ==
    IF i > Len(store) \/ Len(results) >= maxResults THEN results
    ELSE IF matchIDPattern(store[i].id, pattern).match
         THEN QueryFrom(store, pattern, maxResults, i + 1, Append(results, store[i].id))
         ELSE QueryFrom(store, pattern, maxResults, i + 1, results)

\* Number.MAX_SAFE_INTEGER (2^53 - 1), here the largest integer TLC represents:
\* either is above every number of keys the Map can hold
MAX_SAFE_INTEGER == 2147483647

\* GtsStore.query(pattern, limit); limit is <<>> when not given
query(store, pattern, limit) ==
    QueryFrom(store, pattern, IF limit = <<>> THEN MAX_SAFE_INTEGER ELSE limit[1], 1, <<>>)

-----------------------------------------------------------------------------
(* GtsQuery (query.ts)                                                     *)

\* String(x)
RECURSIVE ToJsString(_)
RECURSIVE JoinJs(_, _)
JoinJs(items, i) ==
    IF i > Len(items) THEN ""
    ELSE (IF i > 1 THEN "," ELSE "")
         \o (IF items[i].t \in {"null", "undef"} THEN "" ELSE ToJsString(items[i]))
         \o JoinJs(items, i + 1)
ToJsString(x) ==
    CASE x.t = "str" -> x.v
      [] x.t = "num" -> IF x.v < 0 THEN "-" \o NatToString(-x.v) ELSE NatToString(x.v)
      [] x.t = "bool" -> IF x.v THEN "true" ELSE "false"
      [] x.t = "null" -> "null"
      [] x.t = "undef" -> "undefined"
      [] x.t = "arr" -> JoinJs(x.v, 1)
      [] OTHER -> "[object Object]"

\* value.replace(/^["']|["']$/g, '')
StripQuotes(v) ==
    LET a == IF Len(v) > 0 /\ CharAt(v, 1) \in {"\"", "'"} THEN Tail(v) ELSE v
    IN  IF Len(a) > 0 /\ CharAt(a, Len(a)) \in {"\"", "'"} THEN SubSeq(a, 1, Len(a) - 1) ELSE a

\* arr.join(sep) from the i-th element on
RECURSIVE JoinFrom(_, _, _)
JoinFrom(parts, sep, i) ==
    IF i > Len(parts) THEN ""
    ELSE parts[i] \o (IF i < Len(parts) THEN sep ELSE "") \o JoinFrom(parts, sep, i + 1)

\* the filter loop of GtsQuery.parseQueryExpression: the Map of filters as a function
RECURSIVE ParseFilters(_, _, _)
ParseFilters(filterParts, i, filters) ==
    LET Set(key, value) == [k \in DOMAIN filters \cup {key} |-> IF k = key THEN value ELSE filters[k]]
        Filter(trimmed, kv) ==
            IF Includes(trimmed, "=")
            THEN Set(Trim(kv[1]), StripQuotes(Trim(JoinFrom(kv, "=", 2))))
            ELSE filters
    IN  IF i > Len(filterParts) THEN filters
        ELSE ParseFilters(filterParts, i + 1,
                          Filter(Trim(filterParts[i]), Split(Trim(filterParts[i]), "=")))

\* GtsQuery.validateQueryPattern: "" for undefined, else the error
validateQueryPattern(basePattern, isWildcard) ==
    LET Complete(lastSeg) ==
            IF ~lastSeg.isType /\ lastSeg.verMajor = 0 THEN "Invalid query: incomplete GTS ID pattern"
            ELSE ""
        Parsed(result) ==
            IF ~result.ok THEN "Invalid query: " \o result.error
            ELSE IF Len(result.segments) = 0 THEN "Invalid query: GTS ID has no valid segments"
            ELSE Complete(result.segments[Len(result.segments)])
    IN  IF isWildcard
        THEN IF ~EndsWith(basePattern, ".*") /\ ~EndsWith(basePattern, "~*")
             THEN "Invalid query: wildcard patterns must end with .* or ~*"
             ELSE IF ~StartsWith(basePattern, "gts.")
             THEN "Invalid query: pattern must start with 'gts.'"
             ELSE ""
        ELSE Parsed(parseID(basePattern))

\* GtsQuery.parseQueryExpression
parseQueryExpression(expr) ==
    LET Parse(parts, basePattern) ==
            LET Filtered(filterStr) ==
                    IF ~EndsWith(filterStr, "]")
                    THEN [basePattern |-> basePattern, filters |-> <<>>,
                          error |-> "Invalid query: missing closing bracket ']'"]
                    ELSE IF EndsWith(basePattern, "~") \/ EndsWith(basePattern, "~*")
                    THEN [basePattern |-> basePattern, filters |-> <<>>,
                          error |-> "Invalid query: filters cannot be used with type patterns (ending with ~ or ~*)"]
                    ELSE [basePattern |-> basePattern,
                          filters |-> ParseFilters(Split(SubSeq(filterStr, 1, Len(filterStr) - 1), ","), 1, <<>>),
                          error |-> validateQueryPattern(basePattern, Includes(basePattern, "*"))]
            IN  IF Len(parts) > 1 THEN Filtered(Trim(parts[2]))
                ELSE [basePattern |-> basePattern, filters |-> <<>>,
                      error |-> validateQueryPattern(basePattern, Includes(basePattern, "*"))]
    IN  Parse(Split(expr, "["), Trim(Split(expr, "[")[1]))

\* GtsQuery.matchesIDPattern
matchesIDPattern(entityID, basePattern) == matchIDPattern(entityID, basePattern).match

\* GtsQuery.matchesFilters
matchesFilters(entityContent, filters) ==
    \/ DOMAIN filters = {}
    \/ /\ IsObjectLike(entityContent)
       /\ \A key \in DOMAIN filters :
            LET raw == GetProp(entityContent, key)
                entityValue == IF raw.t \in {"null", "undef"} THEN "" ELSE ToJsString(raw)
            IN  IF filters[key] = "*"
                THEN entityValue # "" /\ entityValue # "null" /\ entityValue # "undefined"
                ELSE entityValue = filters[key]

\* the loop of GtsQuery.query from the i-th entity on
RECURSIVE GtsQueryFrom(_, _, _, _, _, _)
GtsQueryFrom(store, basePattern, filters, limit, i, results) ==
    IF i > Len(store) \/ Len(results) >= limit THEN results
    ELSE IF matchesIDPattern(store[i].id, basePattern) /\ matchesFilters(store[i].content, filters)
         THEN GtsQueryFrom(store, basePattern, filters, limit, i + 1, Append(results, store[i].content))
         ELSE GtsQueryFrom(store, basePattern, filters, limit, i + 1, results)

DEFAULT_QUERY_LIMIT == 100

\* GtsQuery.query(store, expression, limit); limit is <<>> when not given
GtsQuery_query(store, expression, limitOpt) ==
    LET Result(limit, error, results) ==
            [query |-> expression, count |-> Len(results), items |-> results, error |-> error, limit |-> limit]
        Run(limit, parsed) ==
            IF parsed.error # ""
            THEN Result(limit, parsed.error, <<>>)
            ELSE Result(limit, "", GtsQueryFrom(store, parsed.basePattern, parsed.filters, limit, 1, <<>>))
    IN  Run(IF limitOpt = <<>> THEN DEFAULT_QUERY_LIMIT ELSE limitOpt[1], parseQueryExpression(expression))

-----------------------------------------------------------------------------
(* Schema normalisation and the JSON-Schema engine (store.ts)              *)

\* Object.keys(x): the keys of a plain object, in one fixed enumeration order
RECURSIVE SetToSeq(_)
SetToSeq(S) ==
    IF S = {} THEN <<>>
    ELSE LET k == CHOOSE x \in S : TRUE IN <<k>> \o SetToSeq(S \ {k})

ObjectKeys(x) == IF IsObj(x) THEN SetToSeq(DOMAIN x.v) ELSE <<>>

\* the strings of a JSON array of strings, as a sequence (schema.required || [])
StringItems(x) == IF IsArr(x) THEN [i \in 1..Len(x.v) |-> x.v[i].v] ELSE <<>>

RECURSIVE normalizeSchemaRecursive(_)

\* a normalizeSchemaRecursive that prunes the branches that are empty after
\* normalisation, whatever they were before
normalizeSchemaPrunesEmpty(obj) ==
    IF IsArr(obj) THEN JArr([i \in 1..Len(obj.v) |-> normalizeSchemaRecursive(obj.v[i])])
    ELSE IF ~IsObj(obj) THEN obj
    ELSE
    LET NewKey(key) == CASE key = "$$id" -> "$id"
                         [] key = "$$schema" -> "$schema"
                         [] key = "$$ref" -> "$ref"
                         [] key = "$$defs" -> "$defs"
                         [] OTHER -> key
        keys == ObjectKeys(obj)
        IsKept(key) == key # "x-gts-ref"
        kept == SelectSeq(keys, IsKept)
        \* the entry written last under a new key is the one that stays
        LastWriter(newKey) ==
            kept[CHOOSE i \in 1..Len(kept) :
                    /\ NewKey(kept[i]) = newKey
                    /\ \A j \in (i + 1)..Len(kept) : NewKey(kept[j]) # newKey]
        renamed == [newKey \in {NewKey(kept[i]) : i \in 1..Len(kept)} |->
                        normalizeSchemaRecursive(obj.v[LastWriter(newKey)])]
        IsXGtsRefOnly(original) ==
            IsObj(original) /\ DOMAIN original.v = {"x-gts-ref"}
        Cleaned(combinator) ==
            LET original == obj.v[combinator].v
                IsKeptAt(i) == renamed[combinator].v[i] # EmptyObj
                KeptAt(n) == CHOOSE i \in 1..Len(original) :
                                 IsKeptAt(i) /\ Cardinality({j \in 1..i : IsKeptAt(j)}) = n
            IN  [n \in 1..Cardinality({i \in 1..Len(original) : IsKeptAt(i)}) |->
                    renamed[combinator].v[KeptAt(n)]]
        combinators == {c \in {"oneOf", "anyOf", "allOf"} : c \in DOMAIN renamed /\ IsArr(renamed[c])}
        emptied == {c \in combinators : Len(Cleaned(c)) = 0}
        StripUri(key, value) ==
            IF key \in {"$id", "$ref"} /\ IsStr(value) /\ StartsWith(value.v, GTS_URI_PREFIX)
            THEN JStr(Substring(value.v, Len(GTS_URI_PREFIX)))
            ELSE value
    IN  JObj([key \in DOMAIN renamed \ emptied |->
                 IF key \in combinators THEN JArr(Cleaned(key)) ELSE StripUri(key, renamed[key])])

\* GtsStore.normalizeSchemaRecursive
normalizeSchemaRecursive(obj) ==
    IF IsArr(obj) THEN JArr([i \in 1..Len(obj.v) |-> normalizeSchemaRecursive(obj.v[i])])
    ELSE IF ~IsObj(obj) THEN obj
    ELSE
    LET NewKey(key) == CASE key = "$$id" -> "$id"
                         [] key = "$$schema" -> "$schema"
                         [] key = "$$ref" -> "$ref"
                         [] key = "$$defs" -> "$defs"
                         [] OTHER -> key
        keys == ObjectKeys(obj)
        IsKept(key) == key # "x-gts-ref"
        kept == SelectSeq(keys, IsKept)
        \* the entry written last under a new key is the one that stays
        LastWriter(newKey) ==
            kept[CHOOSE i \in 1..Len(kept) :
                    /\ NewKey(kept[i]) = newKey
                    /\ \A j \in (i + 1)..Len(kept) : NewKey(kept[j]) # newKey]
        renamed == [newKey \in {NewKey(kept[i]) : i \in 1..Len(kept)} |->
                        normalizeSchemaRecursive(obj.v[LastWriter(newKey)])]
        IsXGtsRefOnly(original) ==
            IsObj(original) /\ DOMAIN original.v = {"x-gts-ref"}
        Cleaned(combinator) ==
            LET original == obj.v[combinator].v
                IsKeptAt(i) == ~IsXGtsRefOnly(original[i])
                KeptAt(n) == CHOOSE i \in 1..Len(original) :
                                 IsKeptAt(i) /\ Cardinality({j \in 1..i : IsKeptAt(j)}) = n
            IN  [n \in 1..Cardinality({i \in 1..Len(original) : IsKeptAt(i)}) |->
                    renamed[combinator].v[KeptAt(n)]]
        combinators == {c \in {"oneOf", "anyOf", "allOf"} : c \in DOMAIN renamed /\ IsArr(renamed[c])}
        emptied == {c \in combinators : Len(Cleaned(c)) = 0}
        StripUri(key, value) ==
            IF key \in {"$id", "$ref"} /\ IsStr(value) /\ StartsWith(value.v, GTS_URI_PREFIX)
            THEN JStr(Substring(value.v, Len(GTS_URI_PREFIX)))
            ELSE value
    IN  JObj([key \in DOMAIN renamed \ emptied |->
                 IF key \in combinators THEN JArr(Cleaned(key)) ELSE StripUri(key, renamed[key])])

\* GtsStore.normalizeSchema
normalizeSchema(schema) == normalizeSchemaRecursive(schema)

\* The JSON-Schema engine behind ajv.compile(schema)(data), for the draft-07
\* keywords type, const, enum, anyOf, oneOf, allOf, items, required,
\* additionalProperties and properties. Unknown keywords are ignored
\* (strict: false), the first failing keyword ends the validation
\* (allErrors is off), and no modelled schema uses $ref. The result is the
\* sequence validate.errors, empty when the data is valid.
AjvError(keyword, path, message, missing) ==
    [keyword |-> keyword, instancePath |-> path, message |-> message, missingProperty |-> missing]

AjvTypeOk(data, type) ==
    CASE type = "string" -> data.t = "str"
      [] type \in {"number", "integer"} -> data.t = "num"
      [] type = "boolean" -> data.t = "bool"
      [] type = "null" -> data.t = "null"
      [] type = "array" -> data.t = "arr"
      [] type = "object" -> data.t = "obj"
      [] OTHER -> FALSE

\* the first non-empty sequence among checks[1], checks[2], ...
RECURSIVE FirstFailure(_, _)
FirstFailure(checks, i) ==
    IF i > Len(checks) THEN <<>>
    ELSE IF checks[i] # <<>> THEN checks[i]
    ELSE FirstFailure(checks, i + 1)

RECURSIVE AjvErrors(_, _, _)
AjvErrors(schema, data, path) ==
    IF schema.t = "bool"
    THEN IF schema.v THEN <<>> ELSE <<AjvError("false schema", path, "boolean schema is false", "")>>
    ELSE IF ~IsObj(schema) THEN <<>>
    ELSE
    LET type == GetProp(schema, "type")
        types == IF IsStr(type) THEN {type.v} ELSE {type.v[i].v : i \in 1..Len(type.v)}
        typeCheck ==
            IF (IsStr(type) \/ IsArr(type)) /\ ~\E ty \in types : AjvTypeOk(data, ty)
            THEN <<AjvError("type", path, "must be " \o JoinFrom(StringItems(IF IsStr(type) THEN JArr(<<type>>) ELSE type), ",", 1), "")>>
            ELSE <<>>
        constCheck ==
            IF HasProp(schema, "const") /\ data # schema.v["const"]
            THEN <<AjvError("const", path, "must be equal to constant", "")>>
            ELSE <<>>
        enum == GetProp(schema, "enum")
        enumCheck ==
            IF IsArr(enum) /\ ~\E i \in 1..Len(enum.v) : data = enum.v[i]
            THEN <<AjvError("enum", path, "must be equal to one of the allowed values", "")>>
            ELSE <<>>
        Branches(keyword) == GetProp(schema, keyword).v
        BranchErrors(keyword) ==
            [i \in 1..Len(Branches(keyword)) |-> AjvErrors(Branches(keyword)[i], data, path)]
        Passing(keyword) == {i \in 1..Len(Branches(keyword)) : BranchErrors(keyword)[i] = <<>>}
        anyOfCheck ==
            IF IsArr(GetProp(schema, "anyOf")) /\ Passing("anyOf") = {}
            THEN FirstFailure(BranchErrors("anyOf"), 1)
                    \o <<AjvError("anyOf", path, "must match a schema in anyOf", "")>>
            ELSE <<>>
        oneOfCheck ==
            IF IsArr(GetProp(schema, "oneOf")) /\ Cardinality(Passing("oneOf")) # 1
            THEN FirstFailure(BranchErrors("oneOf"), 1)
                    \o <<AjvError("oneOf", path, "must match exactly one schema in oneOf", "")>>
            ELSE <<>>
        allOfCheck ==
            IF IsArr(GetProp(schema, "allOf")) THEN FirstFailure(BranchErrors("allOf"), 1) ELSE <<>>
        items == GetProp(schema, "items")
        itemsCheck ==
            IF IsArr(data) /\ (IsObj(items) \/ items.t = "bool")
            THEN FirstFailure([i \in 1..Len(data.v) |->
                                  AjvErrors(items, data.v[i], path \o "/" \o NatToString(i - 1))], 1)
            ELSE <<>>
        required == StringItems(GetProp(schema, "required"))
        IsMissing(prop) == ~HasProp(data, prop)
        missing == SelectSeq(required, IsMissing)
        requiredCheck ==
            IF IsObj(data) /\ missing # <<>>
            THEN <<AjvError("required", path, "must have required property '" \o missing[1] \o "'", missing[1])>>
            ELSE <<>>
        properties == GetProp(schema, "properties")
        additional == GetProp(schema, "additionalProperties")
        IsExtra(key) == ~HasProp(properties, key)
        extras == SelectSeq(ObjectKeys(data), IsExtra)
        additionalCheck ==
            IF IsObj(data) /\ (IsObj(additional) \/ additional.t = "bool")
            THEN FirstFailure([i \in 1..Len(extras) |->
                    IF additional = JBool(FALSE)
                    THEN <<AjvError("additionalProperties", path, "must NOT have additional properties", "")>>
                    ELSE AjvErrors(additional, data.v[extras[i]], path \o "/" \o extras[i])], 1)
            ELSE <<>>
        IsPresent(key) == HasProp(data, key)
        present == SelectSeq(ObjectKeys(properties), IsPresent)
        propertiesCheck ==
            IF IsObj(data) /\ IsObj(properties)
            THEN FirstFailure([i \in 1..Len(present) |->
                    AjvErrors(properties.v[present[i]], data.v[present[i]], path \o "/" \o present[i])], 1)
            ELSE <<>>
    IN  FirstFailure(<<typeCheck, constCheck, enumCheck, anyOfCheck, oneOfCheck, allOfCheck,
                       itemsCheck, requiredCheck, additionalCheck, propertiesCheck>>, 1)

-----------------------------------------------------------------------------
(* XGtsRefValidator (x-gts-ref.ts)                                         *)

\* a containsXGtsRef that finds an x-gts-ref in every schema
containsXGtsRefEverywhere(schema) == TRUE

\* XGtsRefValidator.containsXGtsRef
RECURSIVE containsXGtsRef(_)
containsXGtsRef(schema) ==
    /\ IsObjectLike(schema)
    /\ \/ HasProp(schema, "x-gts-ref")
       \/ \E k \in DOMAIN schema.v :
            LET value == schema.v[k]
            IN  IF IsArr(value) THEN \E i \in 1..Len(value.v) : containsXGtsRef(value.v[i])
                ELSE IsObj(value) /\ containsXGtsRef(value)

\* the loop of resolvePointer: current[part] for each part, JUndef when a step fails
RECURSIVE PointerWalk(_, _, _)
PointerWalk(current, parts, i) ==
    IF i > Len(parts) THEN current
    ELSE IF ~IsObjectLike(current) THEN JUndef
    ELSE LET next == IF IsArr(current)
                     THEN IF IsCanonicalNat(parts[i]) /\ ParseNat(parts[i], 0) < Len(current.v)
                          THEN current.v[ParseNat(parts[i], 0) + 1] ELSE JUndef
                     ELSE GetProp(current, parts[i])
         IN  IF next = JUndef THEN JUndef ELSE PointerWalk(next, parts, i + 1)

\* XGtsRefValidator.resolvePointer: '' when the pointer resolves to no string
RECURSIVE resolvePointer(_, _)
resolvePointer(schema, pointer) ==
    LET stripGtsURIPrefix(value) ==
            IF StartsWith(value, GTS_URI_PREFIX) THEN Substring(value, Len(GTS_URI_PREFIX)) ELSE value
        FromRef(xGtsRef) ==
            IF IsStr(xGtsRef) /\ xGtsRef.v # ""
            THEN IF StartsWith(xGtsRef.v, "/") THEN resolvePointer(schema, xGtsRef.v) ELSE xGtsRef.v
            ELSE ""
        Resolved(current) ==
            IF IsStr(current) THEN stripGtsURIPrefix(current.v)
            ELSE IF IsObj(current) THEN FromRef(GetProp(current, "x-gts-ref"))
            ELSE ""
        Walk(path) == IF path = "" THEN "" ELSE Resolved(PointerWalk(schema, Split(path, "/"), 1))
    IN  Walk(IF StartsWith(pointer, "/") THEN Tail(pointer) ELSE pointer)

\* an XGtsRefValidationError, by its fieldPath and reason
RefError(fieldPath, reason) == <<[fieldPath |-> fieldPath, reason |-> reason]>>

\* a validateGtsPattern that does not look the value up in the registry
validateGtsPatternWithoutRegistry(store, value, pattern, fieldPath) ==
    IF ~isValidGtsID(value)
    THEN RefError(fieldPath, "Value '" \o value \o "' is not a valid GTS identifier")
    ELSE IF /\ pattern # "gts.*"
            /\ ~StartsWith(value, IF EndsWith(pattern, "*") THEN SubSeq(pattern, 1, Len(pattern) - 1) ELSE pattern)
    THEN RefError(fieldPath, "Value '" \o value \o "' does not match pattern '" \o pattern \o "'")
    ELSE <<>>

\* XGtsRefValidator.validateGtsPattern: <<>> for null, else the error
validateGtsPattern(store, value, pattern, fieldPath) ==
    IF ~isValidGtsID(value)
    THEN RefError(fieldPath, "Value '" \o value \o "' is not a valid GTS identifier")
    ELSE IF /\ pattern # "gts.*"
            /\ ~StartsWith(value, IF EndsWith(pattern, "*") THEN SubSeq(pattern, 1, Len(pattern) - 1) ELSE pattern)
    THEN RefError(fieldPath, "Value '" \o value \o "' does not match pattern '" \o pattern \o "'")
    ELSE IF get(store, value) = <<>>
    THEN RefError(fieldPath, "Referenced entity '" \o value \o "' not found in registry")
    ELSE <<>>

\* XGtsRefValidator.validateRefValue: <<>> for null, else the error
validateRefValue(store, value, refPattern, fieldPath, schema) ==
    LET \* the pattern to validate against, or the error of resolving it
        Nested(resolved, furtherResolved) ==
            IF furtherResolved = ""
            THEN [pattern |-> "", error |->
                    RefError(fieldPath, "Cannot resolve nested reference '" \o refPattern.v
                                        \o "' -> '" \o resolved \o "'")]
            ELSE [pattern |-> furtherResolved, error |-> <<>>]
        Pointer(resolved) ==
            IF resolved = ""
            THEN [pattern |-> "", error |->
                    RefError(fieldPath, "Cannot resolve reference path '" \o refPattern.v \o "'")]
            ELSE IF StartsWith(resolved, "/") THEN Nested(resolved, resolvePointer(schema, resolved))
            ELSE [pattern |-> resolved, error |-> <<>>]
        Checked(r) ==
            IF r.error # <<>> THEN r.error
            ELSE IF StartsWith(refPattern.v, "/") /\ ~StartsWith(r.pattern, "gts.")
            THEN RefError(fieldPath, "Resolved reference '" \o refPattern.v \o "' -> '" \o r.pattern
                                     \o "' is not a GTS pattern")
            ELSE validateGtsPattern(store, value, r.pattern, fieldPath)
    IN  IF ~IsStr(refPattern)
        THEN RefError(fieldPath, "Value must be a string, got " \o
                                 (IF refPattern.t = "num" THEN "number"
                                  ELSE IF refPattern.t = "bool" THEN "boolean" ELSE "object"))
        ELSE Checked(IF StartsWith(refPattern.v, "/")
                     THEN Pointer(resolvePointer(schema, refPattern.v))
                     ELSE [pattern |-> refPattern.v, error |-> <<>>])

\* arrays[1] \o arrays[2] \o ...
RECURSIVE Concat(_, _)
Concat(arrays, i) == IF i > Len(arrays) THEN <<>> ELSE arrays[i] \o Concat(arrays, i + 1)

RECURSIVE visitInstance(_, _, _, _, _)

\* a visitInstance that enforces every branch of an anyOf, as it does for an allOf
visitInstanceEveryAnyOfBranch(store, instance, schema, path, rootSchema) ==
    LET ref == GetProp(schema, "x-gts-ref")
        own == IF ref # JUndef /\ IsStr(instance)
               THEN validateRefValue(store, instance.v, ref, path, rootSchema)
               ELSE <<>>
        properties == GetProp(schema, "properties")
        IsPresent(propName) == HasProp(instance, propName)
        present == SelectSeq(ObjectKeys(properties), IsPresent)
        fromProperties ==
            IF GetProp(schema, "type") = JStr("object") /\ Truthy(properties) /\ IsObjectLike(instance)
            THEN Concat([i \in 1..Len(present) |->
                    visitInstance(store, instance.v[present[i]], properties.v[present[i]],
                                  IF path # "" THEN path \o "." \o present[i] ELSE present[i], rootSchema)], 1)
            ELSE <<>>
        items == GetProp(schema, "items")
        fromItems ==
            IF GetProp(schema, "type") = JStr("array") /\ Truthy(items) /\ IsArr(instance)
            THEN Concat([idx \in 1..Len(instance.v) |->
                    visitInstance(store, instance.v[idx], items,
                                  path \o "[" \o NatToString(idx - 1) \o "]", rootSchema)], 1)
            ELSE <<>>
        Branches(combinator) ==
            IF IsArr(GetProp(schema, combinator)) THEN schema.v[combinator].v ELSE <<>>
        branchResults(combinator) ==
            [i \in 1..Len(Branches(combinator)) |->
                visitInstance(store, instance, Branches(combinator)[i], path, rootSchema)]
        \* enforced only when every branch carries an x-gts-ref
        Enforced(combinator) ==
            /\ Branches(combinator) # <<>>
            /\ \A i \in 1..Len(Branches(combinator)) : containsXGtsRef(Branches(combinator)[i])
        passingCount(combinator) ==
            Cardinality({i \in 1..Len(Branches(combinator)) : branchResults(combinator)[i] = <<>>})
        fromAllOf == Concat(branchResults("allOf"), 1)
        fromAnyOf == IF Enforced("anyOf") THEN Concat(branchResults("anyOf"), 1) ELSE <<>>
        fromOneOf ==
            IF ~Enforced("oneOf") THEN <<>>
            ELSE IF passingCount("oneOf") = 0 THEN Concat(branchResults("oneOf"), 1)
            ELSE IF passingCount("oneOf") > 1
            THEN RefError(IF path # "" THEN path ELSE "/",
                          "Value matches " \o NatToString(passingCount("oneOf"))
                          \o " oneOf branches but must match exactly one")
            ELSE <<>>
    IN  IF ~Truthy(schema) THEN <<>>
        ELSE own \o fromProperties \o fromItems \o fromAllOf \o fromAnyOf \o fromOneOf

\* XGtsRefValidator.visitInstance: the errors it pushes, in order
visitInstance(store, instance, schema, path, rootSchema) ==
    LET ref == GetProp(schema, "x-gts-ref")
        own == IF ref # JUndef /\ IsStr(instance)
               THEN validateRefValue(store, instance.v, ref, path, rootSchema)
               ELSE <<>>
        properties == GetProp(schema, "properties")
        IsPresent(propName) == HasProp(instance, propName)
        present == SelectSeq(ObjectKeys(properties), IsPresent)
        fromProperties ==
            IF GetProp(schema, "type") = JStr("object") /\ Truthy(properties) /\ IsObjectLike(instance)
            THEN Concat([i \in 1..Len(present) |->
                    visitInstance(store, instance.v[present[i]], properties.v[present[i]],
                                  IF path # "" THEN path \o "." \o present[i] ELSE present[i], rootSchema)], 1)
            ELSE <<>>
        items == GetProp(schema, "items")
        fromItems ==
            IF GetProp(schema, "type") = JStr("array") /\ Truthy(items) /\ IsArr(instance)
            THEN Concat([idx \in 1..Len(instance.v) |->
                    visitInstance(store, instance.v[idx], items,
                                  path \o "[" \o NatToString(idx - 1) \o "]", rootSchema)], 1)
            ELSE <<>>
        Branches(combinator) ==
            IF IsArr(GetProp(schema, combinator)) THEN schema.v[combinator].v ELSE <<>>
        branchResults(combinator) ==
            [i \in 1..Len(Branches(combinator)) |->
                visitInstance(store, instance, Branches(combinator)[i], path, rootSchema)]
        \* enforced only when every branch carries an x-gts-ref
        Enforced(combinator) ==
            /\ Branches(combinator) # <<>>
            /\ \A i \in 1..Len(Branches(combinator)) : containsXGtsRef(Branches(combinator)[i])
        passingCount(combinator) ==
            Cardinality({i \in 1..Len(Branches(combinator)) : branchResults(combinator)[i] = <<>>})
        fromAllOf == Concat(branchResults("allOf"), 1)
        fromAnyOf ==
            IF Enforced("anyOf") /\ passingCount("anyOf") = 0
            THEN Concat(branchResults("anyOf"), 1) ELSE <<>>
        fromOneOf ==
            IF ~Enforced("oneOf") THEN <<>>
            ELSE IF passingCount("oneOf") = 0 THEN Concat(branchResults("oneOf"), 1)
            ELSE IF passingCount("oneOf") > 1
            THEN RefError(IF path # "" THEN path ELSE "/",
                          "Value matches " \o NatToString(passingCount("oneOf"))
                          \o " oneOf branches but must match exactly one")
            ELSE <<>>
    IN  IF ~Truthy(schema) THEN <<>>
        ELSE own \o fromProperties \o fromItems \o fromAllOf \o fromAnyOf \o fromOneOf

\* XGtsRefValidator.validateInstance
XGtsRefValidator_validateInstance(store, instance, schema) ==
    visitInstance(store, instance, schema, "", schema)

\* a validateInstance that accepts every registered entity without looking for its schema
validateInstanceWithoutSchema(store, gtsId) ==
    LET Check(gid) ==
            IF ~gid.ok THEN [id |-> gtsId, ok |-> FALSE, valid |-> FALSE, error |-> gid.error]
            ELSE IF get(store, gid.id) = <<>>
            THEN [id |-> gtsId, ok |-> FALSE, valid |-> FALSE, error |-> "Entity not found: " \o gtsId]
            ELSE [id |-> gtsId, ok |-> TRUE, valid |-> TRUE, error |-> ""]
    IN  Check(parseGtsID(gtsId))

\* GtsStore.validateInstance
validateInstance(store, gtsId) ==
    LET \* the result for <<>> (the instance is valid) and for <<error>> (a failure return)
        Result(failure) ==
            IF failure = <<>> THEN [id |-> gtsId, ok |-> TRUE, valid |-> TRUE, error |-> ""]
            ELSE [id |-> gtsId, ok |-> FALSE, valid |-> FALSE, error |-> failure[1]]
        ErrorText(e) ==
            IF e.keyword = "required"
            THEN (IF e.instancePath # "" THEN e.instancePath ELSE "/")
                 \o " must have required property '" \o e.missingProperty \o "'"
            ELSE e.instancePath \o " " \o e.message
        OrValidationFailed(errors) == IF errors = "" THEN "Validation failed" ELSE errors
        RefVerdict(xGtsRefErrors) ==
            IF xGtsRefErrors # <<>>
            THEN <<"x-gts-ref validation failed: "
                   \o JoinFrom([i \in 1..Len(xGtsRefErrors) |-> xGtsRefErrors[i].reason], "; ", 1)>>
            ELSE <<>>
        Verdict(obj, schemaEntity, errors) ==
            IF errors # <<>>
            THEN <<OrValidationFailed(JoinFrom([i \in 1..Len(errors) |-> ErrorText(errors[i])], "; ", 1))>>
            ELSE RefVerdict(XGtsRefValidator_validateInstance(store, obj.content, schemaEntity.content))
        WithSchema(obj, schemaEntity) ==
            IF schemaEntity = <<>> THEN <<"Schema not found: " \o obj.schemaId[1]>>
            ELSE IF ~schemaEntity[1].isSchema THEN <<"Entity '" \o obj.schemaId[1] \o "' is not a schema">>
            ELSE Verdict(obj, schemaEntity[1],
                         AjvErrors(normalizeSchema(schemaEntity[1].content), obj.content, ""))
        WithObject(obj) ==
            IF obj = <<>> THEN <<"Entity not found: " \o gtsId>>
            ELSE IF obj[1].schemaId = None \/ obj[1].schemaId = Some("")
            THEN <<"No schema found for instance: " \o gtsId>>
            ELSE WithSchema(obj[1], get(store, obj[1].schemaId[1]))
        Check(gid) == IF ~gid.ok THEN <<gid.error>> ELSE WithObject(get(store, gid.id))
    IN  Result(Check(parseGtsID(gtsId)))

-----------------------------------------------------------------------------
(* Casting in the store (store.ts)                                         *)

\* A JavaScript object reference: val is the value of the object, owner is
\* <<id>> when the object is the very content object of the registry entity
\* id and <<>> for an object created by the call, and shared is the set of
\* keys under which the object holds an object that the registry holds too.
Ref(owner, val, shared) == [owner |-> owner, val |-> val, shared |-> shared]

\* the content object of the entity registered under id
ContentRef(store, id) == Ref(Some(id), get(store, id)[1].content, {})

\* the value that GtsStore.deepCopy builds
RECURSIVE CopyValue(_)
CopyValue(obj) ==
    IF IsArr(obj) THEN JArr([i \in 1..Len(obj.v) |-> CopyValue(obj.v[i])])
    ELSE IF IsObj(obj) THEN JObj([key \in DOMAIN obj.v |-> CopyValue(obj.v[key])])
    ELSE obj

\* GtsStore.deepCopy: a new object with new objects inside
deepCopy(ref) == Ref(None, CopyValue(ref.val), {})

\* Object.assign(target, source) on plain objects
Assign(target, source) ==
    JObj([key \in DOMAIN target.v \cup DOMAIN source.v |->
             IF key \in DOMAIN source.v THEN source.v[key] ELSE target.v[key]])

\* GtsStore.flattenSchema
RECURSIVE flattenSchema(_)
RECURSIVE FlattenMerge(_, _, _)
FlattenMerge(result, allOf, i) ==
    LET Merge(flattened) ==
            [properties |-> Assign(result.properties, GetProp(flattened, "properties")),
             required |-> result.required \o StringItems(GetProp(flattened, "required")),
             additionalProperties |-> IF GetProp(flattened, "additionalProperties") # JUndef
                                      THEN GetProp(flattened, "additionalProperties")
                                      ELSE result.additionalProperties]
    IN  IF i > Len(allOf) THEN result
        ELSE FlattenMerge(Merge(flattenSchema(allOf[i])), allOf, i + 1)
flattenSchema(schema) ==
    LET Result(properties, required, additional) ==
            IF additional # JUndef
            THEN JObj("properties" :> properties @@ "required" :> required
                      @@ "additionalProperties" :> additional)
            ELSE JObj("properties" :> properties @@ "required" :> required)
        Own(merged, properties, required) ==
            Result(IF Truthy(properties) THEN Assign(merged.properties, properties) ELSE merged.properties,
                   JArr([i \in 1..Len(required) |-> JStr(required[i])]),
                   IF GetProp(schema, "additionalProperties") # JUndef
                   THEN GetProp(schema, "additionalProperties")
                   ELSE merged.additionalProperties)
        Flatten(merged) ==
            Own(merged, GetProp(schema, "properties"),
                merged.required \o StringItems(GetProp(schema, "required")))
    IN  Flatten(FlattenMerge([properties |-> EmptyObj, required |-> <<>>, additionalProperties |-> JUndef],
                             IF IsArr(GetProp(schema, "allOf")) THEN GetProp(schema, "allOf").v ELSE <<>>, 1))

\* GtsStore.effectiveObjectSchema
effectiveObjectSchema(schema) ==
    LET Direct(s) == Truthy(GetProp(s, "properties")) \/ Truthy(GetProp(s, "required"))
        allOf == GetProp(schema, "allOf")
        parts == IF IsArr(allOf) THEN allOf.v ELSE <<>>
    IN  IF ~Truthy(schema) THEN EmptyObj
        ELSE IF Direct(schema) THEN schema
        ELSE IF \E i \in 1..Len(parts) : Direct(parts[i])
        THEN parts[CHOOSE i \in 1..Len(parts) : Direct(parts[i]) /\ \A j \in 1..(i - 1) : ~Direct(parts[j])]
        ELSE schema

\* GtsStore.removeGtsConstConstraints
RECURSIVE removeGtsConstConstraints(_)
removeGtsConstConstraints(schema) ==
    LET \* result.type = 'string' stays unless a later entry 'type' of the schema overwrites it
        TypeAfterConst(order) ==
            LET At(key) == CHOOSE i \in 1..Len(order) : order[i] = key
            IN  "type" \in DOMAIN schema.v /\ At("type") > At("const")
        \* gtsConsts is {"const"} when the schema has a const that is a GTS id, else {}
        Weaken(gtsConsts, stringType) ==
            JObj([key \in (DOMAIN schema.v \ gtsConsts) \cup (IF gtsConsts # {} THEN {"type"} ELSE {}) |->
                     IF key = "type" /\ stringType THEN JStr("string")
                     ELSE removeGtsConstConstraints(schema.v[key])])
        Remove(gtsConsts) == Weaken(gtsConsts, gtsConsts # {} /\ ~TypeAfterConst(ObjectKeys(schema)))
    IN  IF IsArr(schema) THEN JArr([i \in 1..Len(schema.v) |-> removeGtsConstConstraints(schema.v[i])])
        ELSE IF ~IsObj(schema) THEN schema
        ELSE Remove({key \in DOMAIN schema.v \cap {"const"} :
                        IsStr(schema.v[key]) /\ isValidGtsID(schema.v[key].v)})

\* GtsStore.buildPath
buildPath(base, prop) ==
    IF base = "" THEN prop
    ELSE IF StartsWith(prop, "[") THEN base \o prop
    ELSE base \o "." \o prop

\* Array.from(new Set(items)): the items not seen before, in order, once each
RECURSIVE Unique(_, _)
Unique(items, seen) ==
    IF items = <<>> THEN <<>>
    ELSE IF Head(items) \in seen THEN Unique(Tail(items), seen)
    ELSE <<Head(items)>> \o Unique(Tail(items), seen \cup {Head(items)})

\* GtsStore.castInstanceToSchema; casted is a reference, to null when the instance is no object
RECURSIVE castInstanceToSchema(_, _, _)
castInstanceToSchema(instance, schema, basePath) ==
    LET Cast(targetProps, required, additional, result) ==
            LET IsRequired(prop) == \E i \in 1..Len(required) : required[i] = prop
                Default(prop) == GetProp(GetProp(targetProps, prop), "default")
                Const(prop) == GetProp(GetProp(targetProps, prop), "const")
                Type(prop) == GetProp(GetProp(targetProps, prop), "type")
                Items(prop) == GetProp(GetProp(targetProps, prop), "items")
                IsMissing(prop) == ~HasProp(result.val, prop)
                HasDefault(prop) == Default(prop) # JUndef
                HasNoDefault(prop) == Default(prop) = JUndef
                IsOptional(prop) == ~IsRequired(prop)
                IsUnknown(prop) == ~additional /\ ~HasProp(targetProps, prop)
                Reason(prop) ==
                    "Missing required property '" \o buildPath(basePath, prop) \o "' and no default is defined"
                \* the results of the nested casts, and the result of the call
                Finish(filled, noDefault, withConsts, unknown, allNested) ==
                    LET CastedAt(prop, nested) ==
                            IF ~HasProp(targetProps, prop) THEN withConsts[prop]
                            ELSE IF Type(prop) = JStr("object") /\ IsObj(withConsts[prop])
                            THEN nested[1].casted.val
                            ELSE IF nested # <<>>
                            THEN JArr([idx \in 1..Len(withConsts[prop].v) |->
                                          IF IsObj(withConsts[prop].v[idx])
                                          THEN nested[Cardinality({j \in 1..idx : IsObj(withConsts[prop].v[j])})].casted.val
                                          ELSE withConsts[prop].v[idx]])
                            ELSE withConsts[prop]
                    IN  [casted |-> Ref(result.owner,
                                        JObj([prop \in {p \in DOMAIN withConsts : ~IsUnknown(p)} |->
                                                 CastedAt(prop, allNested[prop])]), {}),
                         added |-> [i \in 1..Len(filled) |-> buildPath(basePath, filled[i])]
                                   \o Concat([i \in 1..Len(unknown.kept) |-> Concat(
                                         [n \in 1..Len(allNested[unknown.kept[i]]) |->
                                             allNested[unknown.kept[i]][n].added], 1)], 1),
                         removed |-> [i \in 1..Len(unknown.removed) |-> buildPath(basePath, unknown.removed[i])]
                                     \o Concat([i \in 1..Len(unknown.kept) |-> Concat(
                                           [n \in 1..Len(allNested[unknown.kept[i]]) |->
                                               allNested[unknown.kept[i]][n].removed], 1)], 1),
                         incompatibilityReasons |->
                             [i \in 1..Len(noDefault) |-> Reason(noDefault[i])]
                             \o Concat([i \in 1..Len(unknown.kept) |-> Concat(
                                   [n \in 1..Len(allNested[unknown.kept[i]]) |->
                                       allNested[unknown.kept[i]][n].incompatibilityReasons], 1)], 1)]
                \* 4) nested objects and arrays of objects: the nested results of each property, in order
                Nest(filled, noDefault, withConsts) ==
                    LET IsKept(prop) == prop \in DOMAIN withConsts /\ ~IsUnknown(prop)
                        CastsArray(prop) ==
                            /\ Type(prop) = JStr("array") /\ IsArr(withConsts[prop])
                            /\ Truthy(Items(prop)) /\ GetProp(Items(prop), "type") = JStr("object")
                        ObjectItems(items) ==
                            LET IsObjectItem(idx) == IsObj(items[idx])
                            IN  SelectSeq([idx \in 1..Len(items) |-> idx], IsObjectItem)
                        NestedCast(value, targetSchema, path) ==
                            castInstanceToSchema(Ref(result.owner, value, {}),
                                                 effectiveObjectSchema(targetSchema), buildPath(basePath, path))
                        NestedItems(prop, indexes) ==
                            [n \in 1..Len(indexes) |->
                                NestedCast(withConsts[prop].v[indexes[n]], Items(prop),
                                           prop \o "[" \o NatToString(indexes[n] - 1) \o "]")]
                        Nested(prop) ==
                            IF ~HasProp(targetProps, prop) THEN <<>>
                            ELSE IF Type(prop) = JStr("object") /\ IsObj(withConsts[prop])
                            THEN <<NestedCast(withConsts[prop], GetProp(targetProps, prop), prop)>>
                            ELSE IF CastsArray(prop) THEN NestedItems(prop, ObjectItems(withConsts[prop].v))
                            ELSE <<>>
                    IN  Finish(filled, noDefault, withConsts,
                               \* 3) properties the target does not know
                               [removed |-> SelectSeq(ObjectKeys(JObj(withConsts)), IsUnknown),
                                kept |-> SelectSeq(ObjectKeys(targetProps), IsKept)],
                               [prop \in DOMAIN withConsts |-> IF IsUnknown(prop) THEN <<>> ELSE Nested(prop)])
                \* 2.5) const values that are GTS ids replace GTS ids
                Consts(filled, noDefault, withDefaults) ==
                    LET IsGtsId(value) == IsStr(value) /\ isValidGtsID(value.v)
                    IN  Nest(filled, noDefault,
                             [prop \in DOMAIN withDefaults |->
                                 IF IsGtsId(Const(prop)) /\ IsGtsId(withDefaults[prop])
                                 THEN Const(prop) ELSE withDefaults[prop]])
                \* 1) required properties and 2) optional properties: defaults where provided
                Fill(missing, optional) ==
                    Consts(SelectSeq(missing, HasDefault) \o optional, SelectSeq(missing, HasNoDefault),
                           [prop \in DOMAIN result.val.v
                                     \cup {missing[i] : i \in {j \in 1..Len(missing) : HasDefault(missing[j])}}
                                     \cup {optional[i] : i \in 1..Len(optional)} |->
                               IF prop \in DOMAIN result.val.v THEN result.val.v[prop]
                               ELSE deepCopy(Ref(None, Default(prop), {})).val])
            IN  Fill(SelectSeq(required, IsMissing),
                     SelectSeq(SelectSeq(SelectSeq(ObjectKeys(targetProps), IsOptional), IsMissing), HasDefault))
    IN  IF ~IsObj(instance.val)
        THEN [casted |-> Ref(None, JNull, {}), added |-> <<>>, removed |-> <<>>,
              incompatibilityReasons |-> <<"Instance must be an object for casting">>]
        ELSE Cast(IF Truthy(GetProp(schema, "properties")) THEN GetProp(schema, "properties") ELSE EmptyObj,
                  Unique(StringItems(GetProp(schema, "required")), {}),
                  GetProp(schema, "additionalProperties") # JBool(FALSE),
                  deepCopy(instance))

\* GtsStore.deduplicate: the sorted array of the distinct items, given by their set
deduplicate(arr) == {arr[i] : i \in 1..Len(arr)}

\* GtsStore.performCast (the second one, of castInstance). Of the result, the
\* fields that depend on the cast are modelled: direction, the backward and
\* forward compatibility of the two schemas and their errors are not.
performCast(fromInstanceId, toSchemaId, fromInstanceContent, fromSchemaContent, toSchemaContent) ==
    LET Result(cast, isFullyCompatible, incompatibilityReasons) ==
            [from |-> fromInstanceId, to |-> toSchemaId,
             added_properties |-> deduplicate(cast.added),
             removed_properties |-> deduplicate(cast.removed),
             is_fully_compatible |-> isFullyCompatible,
             incompatibility_reasons |-> incompatibilityReasons,
             casted_entity |-> cast.casted,
             instance_id |-> fromInstanceId, to_schema_id |-> toSchemaId,
             ok |-> isFullyCompatible,
             error |-> IF isFullyCompatible THEN "" ELSE JoinFrom(incompatibilityReasons, "; ", 1)]
        OrValidationFailed(errors) == IF errors = "" THEN "Validation failed" ELSE errors
        Validated(cast, errors) ==
            Result(cast, errors = <<>>,
                   cast.incompatibilityReasons
                   \o (IF errors # <<>>
                       THEN <<OrValidationFailed(JoinFrom(
                                [i \in 1..Len(errors) |-> errors[i].instancePath \o " " \o errors[i].message],
                                "; ", 1))>>
                       ELSE <<>>))
        Cast(cast) ==
            IF Truthy(cast.casted.val)
            THEN Validated(cast, AjvErrors(normalizeSchema(removeGtsConstConstraints(toSchemaContent)),
                                           cast.casted.val, ""))
            ELSE Result(cast, FALSE, cast.incompatibilityReasons)
    IN  Cast(castInstanceToSchema(deepCopy(fromInstanceContent), flattenSchema(toSchemaContent), ""))

\* GtsStore.castInstance
castInstance(store, instanceId, toSchemaId) ==
    LET failed(error) == [instance_id |-> instanceId, to_schema_id |-> toSchemaId, ok |-> FALSE, error |-> error,
                          casted_entity |-> Ref(None, JUndef, {})]
        WithSchemas(fromSchemaId, fromSchema, toSchema) ==
            IF fromSchema = <<>> THEN failed("Schema not found: " \o fromSchemaId)
            ELSE IF toSchema.content \in {JNull, JUndef}
            THEN failed("Cannot read properties of null (reading 'allOf')")
            ELSE performCast(instanceId, toSchemaId, ContentRef(store, instanceId),
                             fromSchema[1].content, toSchema.content)
        WithEntities(instanceEntity, toSchema) ==
            IF instanceEntity = <<>> THEN failed("Entity not found: " \o instanceId)
            ELSE IF toSchema = <<>> THEN failed("Schema not found: " \o toSchemaId)
            ELSE IF instanceEntity[1].isSchema THEN failed("Source must be an instance, not a schema")
            ELSE IF instanceEntity[1].schemaId = None \/ instanceEntity[1].schemaId = Some("")
            THEN failed("Schema not found for instance: " \o instanceId)
            ELSE IF \/ StartsWith(instanceEntity[1].schemaId[1], "http://")
                    \/ StartsWith(instanceEntity[1].schemaId[1], "https://")
            THEN failed("Cannot cast instance with schema " \o instanceEntity[1].schemaId[1])
            ELSE WithSchemas(instanceEntity[1].schemaId[1], get(store, instanceEntity[1].schemaId[1]), toSchema[1])
    IN  WithEntities(get(store, instanceId), get(store, toSchemaId))

-----------------------------------------------------------------------------
(* GtsCompatibility (src/src/compatibility.ts)                             *)

\* GtsCompatibility.inferDirection
GtsCompatibility_inferDirection(fromId, toId) ==
    LET Minor(seg) == IF seg.verMinor = NoMinor THEN 0 ELSE seg.verMinor
        Compare(fromSeg, toSeg) ==
            IF fromSeg.verMajor < toSeg.verMajor THEN "upgrade"
            ELSE IF fromSeg.verMajor > toSeg.verMajor THEN "downgrade"
            ELSE IF Minor(fromSeg) < Minor(toSeg) THEN "upgrade"
            ELSE IF Minor(fromSeg) > Minor(toSeg) THEN "downgrade"
            ELSE "same"
        Infer(fromGtsId, toGtsId) ==
            IF ~fromGtsId.ok \/ ~toGtsId.ok THEN "unknown"
            ELSE Compare(fromGtsId.segments[Len(fromGtsId.segments)], toGtsId.segments[Len(toGtsId.segments)])
    IN  Infer(parseGtsID(fromId), parseGtsID(toId))

\* GtsCompatibility.buildResult
buildResult(oldId, newId, isFullyCompatible, isBackward, isForward, backwardErrors, forwardErrors) ==
    [from |-> oldId, to |-> newId,
     direction |-> GtsCompatibility_inferDirection(oldId, newId),
     is_fully_compatible |-> isFullyCompatible,
     is_backward_compatible |-> isBackward,
     is_forward_compatible |-> isForward,
     incompatibility_reasons |-> backwardErrors \o forwardErrors,
     backward_errors |-> backwardErrors,
     forward_errors |-> forwardErrors]

\* GtsCompatibility.normalizeType
normalizeType(type) ==
    IF IsArr(type) THEN JoinFrom(StringItems(type), "|", 1)
    ELSE IF Truthy(type) THEN type.v ELSE "any"

\* GtsCompatibility.areTypesCompatible
areTypesCompatible(oldType, newType, direction) ==
    LET Types(type) == {type[i] : i \in 1..Len(type)}
        Subset(oldTypes, newTypes) ==
            IF direction = "backward" THEN oldTypes \subseteq newTypes ELSE newTypes \subseteq oldTypes
    IN  \/ oldType = newType
        \/ direction = "backward" /\ (newType = "any" \/ (oldType = "integer" /\ newType = "number"))
        \/ direction = "forward" /\ (oldType = "any" \/ (newType = "integer" /\ oldType = "number"))
        \/ Subset(Types(Split(oldType, "|")), Types(Split(newType, "|")))

\* GtsCompatibility.checkPropertyCompatibility: the errors it pushes; it returns false iff it pushes one
checkPropertyCompatibility(propName, oldProp, newProp, direction) ==
    LET Enums(oldEnum, newEnum) ==
            LET IsRemoved(value) == ~\E i \in 1..Len(newEnum.v) : newEnum.v[i] = value
                First(removed) ==
                    IF removed # <<>>
                    THEN <<"Enum value '" \o ToJsString(removed[1]) \o "' removed from property '"
                           \o propName \o "'">>
                    ELSE <<>>
            IN  IF IsArr(oldEnum) /\ IsArr(newEnum) /\ direction = "backward"
                THEN First(SelectSeq(oldEnum.v, IsRemoved))
                ELSE <<>>
        Types(oldType, newType) ==
            IF oldType # newType /\ ~areTypesCompatible(oldType, newType, direction)
            THEN <<"Property '" \o propName \o "' type incompatibly changed from " \o oldType
                   \o " to " \o newType>>
            ELSE Enums(GetProp(oldProp, "enum"), GetProp(newProp, "enum"))
    IN  Types(normalizeType(GetProp(oldProp, "type")), normalizeType(GetProp(newProp, "type")))

\* GtsCompatibility.checkBackwardCompatibility: the errors it pushes; compatible iff none
checkBackwardCompatibility(oldSchema, newSchema) ==
    LET oldProps == OrElse(GetProp(oldSchema, "properties"), EmptyObj)
        newProps == OrElse(GetProp(newSchema, "properties"), EmptyObj)
        oldRequired == StringItems(GetProp(oldSchema, "required"))
        names == ObjectKeys(oldProps)
        Errors(propName) ==
            IF ~HasProp(newProps, propName)
            THEN IF \E i \in 1..Len(oldRequired) : oldRequired[i] = propName
                 THEN <<"Required property '" \o propName \o "' removed in new schema">>
                 ELSE <<>>
            ELSE checkPropertyCompatibility(propName, oldProps.v[propName], newProps.v[propName], "backward")
    IN  Concat([i \in 1..Len(names) |-> Errors(names[i])], 1)

\* GtsCompatibility.checkForwardCompatibility: the errors it pushes; compatible iff none
checkForwardCompatibility(oldSchema, newSchema) ==
    LET oldProps == OrElse(GetProp(oldSchema, "properties"), EmptyObj)
        newProps == OrElse(GetProp(newSchema, "properties"), EmptyObj)
        newRequired == StringItems(GetProp(newSchema, "required"))
        names == ObjectKeys(newProps)
        Errors(propName) ==
            IF ~HasProp(oldProps, propName)
            THEN IF \E i \in 1..Len(newRequired) : newRequired[i] = propName
                 THEN <<"New required property '" \o propName \o "' added">>
                 ELSE <<>>
            ELSE checkPropertyCompatibility(propName, oldProps.v[propName], newProps.v[propName], "forward")
    IN  Concat([i \in 1..Len(names) |-> Errors(names[i])], 1)

\* GtsCompatibility.checkCompatibility
checkCompatibility(store, oldId, newId) ==
    LET \* the errors of the two checks, or the one error of a failure return
        failed(error) == [failed |-> TRUE, backwardErrors |-> <<error>>, forwardErrors |-> <<>>]
        Entities(oldEntity, newEntity) ==
            IF oldEntity = <<>> THEN failed("Old schema not found: " \o oldId)
            ELSE IF newEntity = <<>> THEN failed("New schema not found: " \o newId)
            ELSE IF ~oldEntity[1].isSchema THEN failed("Old entity is not a schema: " \o oldId)
            ELSE IF ~newEntity[1].isSchema THEN failed("New entity is not a schema: " \o newId)
            ELSE [failed |-> FALSE,
                  backwardErrors |-> checkBackwardCompatibility(oldEntity[1].content, newEntity[1].content),
                  forwardErrors |-> checkForwardCompatibility(oldEntity[1].content, newEntity[1].content)]
        Ids(oldGtsId, newGtsId) ==
            IF ~oldGtsId.ok THEN failed(oldGtsId.error)
            ELSE IF ~newGtsId.ok THEN failed(newGtsId.error)
            ELSE Entities(get(store, oldGtsId.id), get(store, newGtsId.id))
        Result(r) ==
            buildResult(oldId, newId,
                        ~r.failed /\ r.backwardErrors = <<>> /\ r.forwardErrors = <<>>,
                        ~r.failed /\ r.backwardErrors = <<>>,
                        ~r.failed /\ r.forwardErrors = <<>>,
                        r.backwardErrors, r.forwardErrors)
    IN  Result(Ids(parseGtsID(oldId), parseGtsID(newId)))

-----------------------------------------------------------------------------
(* GtsCast (src/src/cast.ts)                                               *)

\* GtsCast.getDefaultForType
getDefaultForType(type) ==
    CASE type = JStr("string") -> JStr("")
      [] type \in {JStr("number"), JStr("integer")} -> JNum(0)
      [] type = JStr("boolean") -> JBool(FALSE)
      [] type = JStr("array") -> JArr(<<>>)
      [] type = JStr("object") -> EmptyObj
      [] OTHER -> JNull

\* GtsCast.getDefaultValue: schema.default itself where there is one
getDefaultValue(schema) ==
    LET type == GetProp(schema, "type")
    IN  IF HasProp(schema, "default") THEN schema.v["default"]
        ELSE IF IsArr(type)
        THEN IF \E i \in 1..Len(type.v) : type.v[i] = JStr("null") THEN JNull
             ELSE getDefaultForType(IF Len(type.v) > 0 THEN type.v[1] ELSE JUndef)
        ELSE getDefaultForType(type)

\* str.replace(from, to): the first occurrence only
RECURSIVE ReplaceFirst(_, _, _)
ReplaceFirst(str, from, to) ==
    IF StartsWith(str, from) THEN to \o Substring(str, Len(from))
    ELSE IF str = "" THEN ""
    ELSE CharAt(str, 1) \o ReplaceFirst(Tail(str), from, to)

\* GtsCast.performCast: a reference to the new object `filtered`
GtsCast_performCast(instance, fromSchema, toSchema, toSchemaId) ==
    LET Version(seg) == "v" \o NatToString(seg.verMajor) \o "."
                        \o NatToString(IF seg.verMinor = NoMinor THEN 0 ELSE seg.verMinor)
        \* result.gtsId = result.gtsId.replace(fromVersion, toVersion)
        WithGtsId(result, fromSegments, toSegments) ==
            IF Len(fromSegments) > 0 /\ Len(toSegments) > 0 /\ HasProp(result, "gtsId")
            THEN Put(result, "gtsId", JStr(ReplaceFirst(result.v["gtsId"].v, Version(fromSegments[1]),
                                                        Version(toSegments[1]))))
            ELSE result
        WithSchema(result) ==
            IF HasProp(result, "$$schema")
            THEN Put(Put(result, "$schema", JStr(toSchemaId)), "$$schema", JStr(toSchemaId))
            ELSE IF HasProp(result, "$schema") THEN Put(result, "$schema", JStr(toSchemaId))
            ELSE result
        Filter(result, toProps, toRequired) ==
            LET copied == {key \in DOMAIN result.v :
                              HasProp(toProps, key) \/ key \in {"gtsId", "$schema", "$$schema"}}
                invented == {prop \in toRequired \ copied : Truthy(GetProp(toProps, prop))}
                defaulted == {prop \in DOMAIN toProps.v \ (copied \cup invented) :
                                 HasProp(toProps.v[prop], "default")}
                Value(key) ==
                    IF key \in copied THEN result.v[key]
                    ELSE IF key \in invented THEN getDefaultValue(toProps.v[key])
                    ELSE toProps.v[key].v["default"]
            IN  Ref(None, JObj([key \in copied \cup invented \cup defaulted |-> Value(key)]),
                    \* the objects put into filtered by reference: values of the instance, defaults of the schema
                    {key \in copied \cup invented \cup defaulted :
                        /\ IsObjectLike(Value(key))
                        /\ key \in invented => HasProp(toProps.v[key], "default")})
    IN  Filter(WithSchema(WithGtsId(
                   instance.val,
                   parseID(ToJsString(OrElse(GetProp(fromSchema, "$$id"), GetProp(fromSchema, "$id")))).segments,
                   parseID(toSchemaId).segments)),
               OrElse(GetProp(toSchema, "properties"), EmptyObj),
               {GetProp(toSchema, "required").v[i].v : i \in 1..Len(StringItems(GetProp(toSchema, "required")))})

\* GtsCast.castInstance
GtsCast_castInstance(store, fromId, toSchemaId) ==
    LET failed(error) == [ok |-> FALSE, fromId |-> fromId, toId |-> toSchemaId, error |-> error,
                          result |-> Ref(None, JUndef, {})]
        Compatible(fromGtsId, fromSchemaEntity, toSchema, compatCheck) ==
            IF ~compatCheck.is_fully_compatible
            THEN failed("Schemas are not compatible: " \o JoinFrom(compatCheck.incompatibility_reasons, "; ", 1))
            ELSE [ok |-> TRUE, fromId |-> fromId, toId |-> toSchemaId, error |-> "",
                  result |-> GtsCast_performCast(ContentRef(store, fromGtsId.id), fromSchemaEntity.content,
                                                 toSchema.content, toSchemaId)]
        Target(fromGtsId, fromEntity, toSchema, fromSchemaEntity) ==
            IF toSchema = <<>> THEN failed("Target schema not found: " \o toSchemaId)
            ELSE IF ~toSchema[1].isSchema THEN failed("Target is not a schema: " \o toSchemaId)
            ELSE IF fromSchemaEntity = <<>> THEN failed("Source schema not found: " \o fromEntity.schemaId[1])
            ELSE Compatible(fromGtsId, fromSchemaEntity[1], toSchema[1],
                            checkCompatibility(store, fromEntity.schemaId[1], toSchemaId))
        Source(fromGtsId, fromEntity, toGtsId) ==
            IF fromEntity = <<>> THEN failed("Instance not found: " \o fromId)
            ELSE IF fromEntity[1].schemaId = None \/ fromEntity[1].schemaId = Some("")
            THEN failed("No schema found for instance: " \o fromId)
            ELSE IF ~toGtsId.ok THEN failed(toGtsId.error)
            ELSE Target(fromGtsId, fromEntity[1], get(store, toGtsId.id), get(store, fromEntity[1].schemaId[1]))
        Ids(fromGtsId) ==
            IF ~fromGtsId.ok THEN failed(fromGtsId.error)
            ELSE Source(fromGtsId, get(store, fromGtsId.id), parseGtsID(toSchemaId))
    IN  Ids(parseGtsID(fromId))

-----------------------------------------------------------------------------
(* GtsRelationships (src/src/relationships.ts) and getAttribute (store.ts) *)

\* GtsRelationships.findRelationships: the ids it adds to `relationships`
RECURSIVE findRelationships(_)
findRelationships(obj) ==
    LET Normalized(ref) == IF StartsWith(ref, "gts://") THEN Substring(ref, 6) ELSE ref
        \* the strings under $ref (normalised) and under x-gts-ref
        Candidates(ref, xref) ==
            (IF IsStr(ref) THEN {Normalized(ref.v)} ELSE {}) \cup (IF IsStr(xref) THEN {xref.v} ELSE {})
    IN  IF ~IsObjectLike(obj) THEN {}
        ELSE {id \in Candidates(GetProp(obj, "$ref"), GetProp(obj, "x-gts-ref")) : isValidGtsID(id)}
             \cup UNION {findRelationships(obj.v[k]) : k \in DOMAIN obj.v}

\* the characters of identifiers and URLs, in the order of their UTF-16 code units
CodeUnitOrder == "#$-./0123456789:_abcdefghijklmnopqrstuvwxyz~"

\* a < b of two strings: the comparison of the default Array.prototype.sort
RECURSIVE StringLess(_, _)
StringLess(a, b) ==
    LET Rank(c) == CHOOSE i \in 1..Len(CodeUnitOrder) : CharAt(CodeUnitOrder, i) = c
    IN  IF Len(b) = 0 THEN FALSE
        ELSE IF Len(a) = 0 THEN TRUE
        ELSE IF Head(a) # Head(b) THEN Rank(CharAt(a, 1)) < Rank(CharAt(b, 1))
        ELSE StringLess(Tail(a), Tail(b))

\* Array.from(set).sort() of a Set of strings
RECURSIVE SortedArray(_)
SortedArray(set) ==
    IF set = {} THEN <<>>
    ELSE LET least == CHOOSE x \in set : \A y \in set \ {x} : StringLess(x, y)
         IN  <<least>> \o SortedArray(set \ {least})

\* a resolveRelationships that reports every relationship as broken
resolveRelationshipsAllBroken(store, gtsId) ==
    LET Result(relationships) ==
            [id |-> gtsId, relationships |-> SortedArray(relationships),
             brokenReferences |-> SortedArray(relationships),
             error |-> ""]
        Resolve(entity) ==
            IF entity = <<>>
            THEN [id |-> gtsId, relationships |-> <<>>, brokenReferences |-> <<>>,
                  error |-> "Entity not found: " \o gtsId]
            ELSE Result(findRelationships(entity[1].content)
                        \cup (IF entity[1].schemaId \notin {None, Some("")}
                              THEN {entity[1].schemaId[1]} ELSE {}))
    IN  Resolve(get(store, gtsId))

\* GtsRelationships.resolveRelationships
resolveRelationships(store, gtsId) ==
    LET Result(relationships) ==
            [id |-> gtsId, relationships |-> SortedArray(relationships),
             brokenReferences |-> SortedArray({ref \in relationships : get(store, ref) = <<>>}),
             error |-> ""]
        Resolve(entity) ==
            IF entity = <<>>
            THEN [id |-> gtsId, relationships |-> <<>>, brokenReferences |-> <<>>,
                  error |-> "Entity not found: " \o gtsId]
            ELSE Result(findRelationships(entity[1].content)
                        \cup (IF entity[1].schemaId \notin {None, Some("")}
                              THEN {entity[1].schemaId[1]} ELSE {}))
    IN  Resolve(get(store, gtsId))

\* GtsStore.isJsonSchemaUrl
isJsonSchemaUrl(s) ==
    (StartsWith(s, "http://") \/ StartsWith(s, "https://")) /\ Includes(s, "json-schema.org")

\* walkAndCollectRefs of GtsStore.extractGtsReferences: refs with the
\* references under node added
RECURSIVE walkAndCollectRefs(_, _, _)
RECURSIVE WalkEntries(_, _, _, _, _)
WalkEntries(node, keys, i, path, refs) ==
    IF i > Len(keys) THEN refs
    ELSE WalkEntries(node, keys, i + 1, path,
                     walkAndCollectRefs(node.v[keys[i]],
                                        IF IsArr(node)
                                        THEN path \o "[" \o NatToString(keys[i] - 1) \o "]"
                                        ELSE IF path # "" THEN path \o "." \o keys[i] ELSE keys[i],
                                        refs))
walkAndCollectRefs(node, path, refs) ==
    IF node.t \in {"null", "undef"} THEN refs
    ELSE IF IsStr(node)
    THEN LET ref == [id |-> node.v, sourcePath |-> IF path # "" THEN path ELSE "root"]
         IN  IF isValidGtsID(node.v) /\ ~\E i \in 1..Len(refs) : refs[i] = ref
             THEN Append(refs, ref) ELSE refs
    ELSE IF IsObj(node) THEN WalkEntries(node, ObjectKeys(node), 1, path, refs)
    ELSE IF IsArr(node) THEN WalkEntries(node, [i \in 1..Len(node.v) |-> i], 1, path, refs)
    ELSE refs

\* GtsStore.extractGtsReferences
extractGtsReferences(content) == walkAndCollectRefs(content, "", <<>>)

\* GtsStore.buildSchemaGraphNode: the node, the set seen afterwards and, in
\* expanded, the ids it went on to look up, in the order of the lookups
RECURSIVE buildSchemaGraphNode(_, _, _, _)
RECURSIVE BuildRefNodes(_, _, _, _, _, _)
\* the loop over refs: the entries of nodeRefs, with seen and expanded
BuildRefNodes(store, gtsId, refs, i, nodeRefs, walk) ==
    IF i > Len(refs) THEN [nodeRefs |-> nodeRefs, seen |-> walk.seen, expanded |-> walk.expanded]
    ELSE IF refs[i].id = gtsId \/ isJsonSchemaUrl(refs[i].id)
    THEN BuildRefNodes(store, gtsId, refs, i + 1, nodeRefs, walk)
    ELSE LET built == buildSchemaGraphNode(store, refs[i].id, walk.seen, walk.expanded)
         IN  BuildRefNodes(store, gtsId, refs, i + 1,
                           Append(nodeRefs, [sourcePath |-> refs[i].sourcePath, node |-> built.node]),
                           built)
buildSchemaGraphNode(store, gtsId, seen, expanded) ==
    LET Node(errors, refs, schema_id) ==
            [id |-> gtsId, errors |-> errors, refs |-> refs, schema_id |-> schema_id]
        WithSchema(entity, r) ==
            IF entity.schemaId \notin {None, Some("")}
            THEN IF ~isJsonSchemaUrl(entity.schemaId[1])
                 THEN LET built == buildSchemaGraphNode(store, entity.schemaId[1], r.seen, r.expanded)
                      IN  [node |-> Node(<<>>, r.nodeRefs, <<built.node>>),
                           seen |-> built.seen, expanded |-> built.expanded]
                 ELSE [node |-> Node(<<>>, r.nodeRefs, <<>>), seen |-> r.seen, expanded |-> r.expanded]
            ELSE [node |-> Node(IF ~entity.isSchema THEN <<"Schema not recognized">> ELSE <<>>,
                                r.nodeRefs, <<>>),
                  seen |-> r.seen, expanded |-> r.expanded]
        Expand(entity) ==
            IF entity = <<>>
            THEN [node |-> Node(<<"Entity not found">>, <<>>, <<>>),
                  seen |-> seen \cup {gtsId}, expanded |-> Append(expanded, gtsId)]
            ELSE WithSchema(entity[1],
                            BuildRefNodes(store, gtsId, extractGtsReferences(entity[1].content), 1, <<>>,
                                          [seen |-> seen \cup {gtsId},
                                           expanded |-> Append(expanded, gtsId)]))
    IN  IF gtsId \in seen
        THEN [node |-> Node(<<>>, <<>>, <<>>), seen |-> seen, expanded |-> expanded]
        ELSE Expand(get(store, gtsId))

\* GtsStore.resolveRelationships
GtsStore_resolveRelationships(store, gtsId) == buildSchemaGraphNode(store, gtsId, {}, <<>>)

\* the path parser of GtsStore.getNestedValue, from the i-th character on
RECURSIVE NestedParts(_, _, _, _, _)
NestedParts(path, i, current, inBracket, parts) ==
    LET char == CharAt(path, i)
        flushed == IF current # "" THEN Append(parts, current) ELSE parts
    IN  IF i > Len(path) THEN flushed
        ELSE IF char = "[" THEN NestedParts(path, i + 1, "", TRUE, flushed)
        ELSE IF char = "]"
        THEN NestedParts(path, i + 1, "", FALSE,
                         IF current # "" THEN Append(parts, "[" \o current \o "]") ELSE parts)
        ELSE IF char = "." /\ ~inBracket THEN NestedParts(path, i + 1, "", inBracket, flushed)
        ELSE NestedParts(path, i + 1, current \o char, inBracket, parts)

\* the lookup loop of GtsStore.getNestedValue, from the i-th part on
RECURSIVE NestedLookup(_, _, _)
NestedLookup(result, parts, i) ==
    LET part == parts[i]
        digits == TrimLeft(SubSeq(part, 2, Len(part) - 1))
        \* parseInt(digits, 10) for an unsigned decimal; anything else indexes nothing
        IsIndex == digits # "" /\ \A n \in 1..Len(digits) : CharAt(digits, n) \in DigitChars
        index == ParseNat(digits, 0)
    IN  IF i > Len(parts) THEN result
        ELSE IF result.t \in {"null", "undef"} THEN JUndef
        ELSE IF StartsWith(part, "[") /\ EndsWith(part, "]")
        THEN IF IsArr(result) /\ IsIndex /\ index < Len(result.v)
             THEN NestedLookup(result.v[index + 1], parts, i + 1)
             ELSE JUndef
        ELSE IF HasProp(result, part) THEN NestedLookup(result.v[part], parts, i + 1)
        ELSE JUndef

\* GtsStore.getNestedValue
getNestedValue(obj, path) == NestedLookup(obj, NestedParts(path, 1, "", FALSE, <<>>), 1)

\* GtsStore.getAttribute
getAttribute(store, gtsId, path) ==
    LET Result(value) ==
            [gts_id |-> gtsId, path |-> path, resolved |-> value # JUndef, value |-> value, error |-> ""]
        Lookup(entity) ==
            IF entity = <<>>
            THEN [gts_id |-> gtsId, path |-> path, resolved |-> FALSE, value |-> JUndef,
                  error |-> "Entity not found: " \o gtsId]
            ELSE Result(getNestedValue(entity[1].content, path))
    IN  Lookup(get(store, gtsId))

-----------------------------------------------------------------------------
(* GTS: the library facade (src/src/index.ts)                              *)

\* GTS.register(content): the store after the call and whether the call threw
GTS_register(store, validate, content) == register(store, validate, createJsonEntity(content))

\* GTS.get(id): entity?.content
GTS_get(store, id) ==
    LET Content(entity) == IF entity = <<>> THEN JUndef ELSE entity[1].content
    IN  Content(get(store, id))

\* GTS.validateInstance(id)
GTS_validateInstance(store, id) == validateInstance(store, id)

\* GTS.getAttribute(path), path being gts_id@attr_path
GTS_getAttribute(store, path) ==
    LET atIndex == IndexOf(path, "@")
    IN  IF atIndex = -1
        THEN [gts_id |-> "", path |-> path, resolved |-> FALSE, value |-> JUndef,
              error |-> "Invalid attribute path: missing @"]
        ELSE getAttribute(store, SubSeq(path, 1, atIndex), Substring(path, atIndex + 1))

-----------------------------------------------------------------------------
(* The documents and arguments the model draws its inputs from             *)

SCHEMA_URL == "http://json-schema.org/draft-07/schema#"
TypeA == "gts.a.b.c.d.v1~"
InstE0 == "gts.a.b.c.d.v1~a.b.c.e.v0"
InstF1 == "gts.a.b.c.d.v1~a.b.c.f.v1.0"

DocSchemaA ==
    JObj("$id" :> JStr("gts://" \o TypeA) @@ "$schema" :> JStr(SCHEMA_URL) @@ "type" :> JStr("object")
         @@ "properties" :> JObj("name" :> JObj("type" :> JStr("string")))
         @@ "required" :> JArr(<<JStr("name")>>))

\* the same id as DocSchemaA, other content
DocSchemaA2 ==
    JObj("$id" :> JStr(TypeA) @@ "$schema" :> JStr(SCHEMA_URL) @@ "type" :> JStr("object")
         @@ "properties" :> JObj("name" :> JObj("type" :> JStr("string")) @@ "age" :> JObj("type" :> JStr("number"))
                                 @@ "level" :> JObj("type" :> JStr("number"))))

DocInstE0 == JObj("gtsId" :> JStr(InstE0) @@ "name" :> JStr("e"))

\* refers to InstE0
DocInstF1 == JObj("gtsId" :> JStr(InstF1) @@ "name" :> JStr("f")
                  @@ "friend" :> JObj("$ref" :> JStr("gts://" \o InstE0)))

\* the same id as DocInstE0, refers to InstF1 and to its own type
DocInstE0b == JObj("gtsId" :> JStr(InstE0) @@ "kind" :> JObj("x-gts-ref" :> JStr(TypeA))
                   @@ "friends" :> JArr(<<JObj("$ref" :> JStr(InstF1))>>))

DocNoId == JObj("name" :> JStr("anonymous"))

DocBadId == JObj("id" :> JStr("hello") @@ "name" :> JStr("h"))

StoreDocs == {DocSchemaA, DocSchemaA2, DocInstE0, DocInstF1, DocInstE0b, DocNoId, DocBadId}

StoreIds == {TypeA, InstE0, InstF1, "", "hello"}

QueryDocs == {DocSchemaA, DocInstE0, DocInstF1}

QueryPatterns == {"gts.a.*", " gts.a.b.c.d.v1~ ", InstE0, "gts.a.b.c.d.v1~a.b.c.f.v1", "hello"}

QueryExpressions == QueryPatterns \cup {"gts.a.*[name=\"e\"]", "gts.a.*[name=*]"}

Limits == {<<>>} \cup {<<n>> : n \in 0..MaxLimit}

\* documents for validation: an entity under the id of the type that is no schema,
\* an instance without the required name, one with a number for a name, and
\* an instance whose id has no type in front
InstG1 == "gts.a.b.c.d.v1~a.b.c.g.v1"
InstH1 == "gts.a.b.c.h.v1"
DocFakeA == JObj("$id" :> JStr(TypeA) @@ "name" :> JStr("a"))
DocInstG1 == JObj("gtsId" :> JStr(InstG1) @@ "age" :> JNum(3))
DocInstE0n == JObj("gtsId" :> JStr(InstE0) @@ "name" :> JNum(5))
DocInstH1 == JObj("gtsId" :> JStr(InstH1) @@ "name" :> JStr("h"))

ValidateDocs == {DocSchemaA, DocFakeA, DocInstE0, DocInstE0n, DocInstG1, DocInstH1}

ValidateIds == {InstE0, " " \o InstE0, InstG1, InstH1, TypeA, "Hello"}

\* documents for casting: the type in two minor versions and two instances of the first
TypeB == "gts.a.b.c.d.v1.1~"
OtherType == "gts.x.b.c.d.v1~"

\* age is required and has no default, level is required and has one, tags has a
\* default array, owner must refer to a registered entity gts.a.*
DocSchemaB ==
    JObj("$id" :> JStr("gts://" \o TypeB) @@ "$schema" :> JStr(SCHEMA_URL) @@ "type" :> JStr("object")
         @@ "properties" :> JObj("name" :> JObj("type" :> JStr("string"))
                                 @@ "age" :> JObj("type" :> JStr("number"))
                                 @@ "level" :> JObj("type" :> JStr("number") @@ "default" :> JNum(7))
                                 @@ "tags" :> JObj("type" :> JStr("array") @@ "default" :> JArr(<<JStr("t")>>))
                                 @@ "owner" :> JObj("type" :> JStr("string") @@ "x-gts-ref" :> JStr("gts.a.*")))
         @@ "required" :> JArr(<<JStr("name"), JStr("age"), JStr("level")>>))

\* an instance with an age, tags and an owner that is no registered entity gts.a.*
DocInstOwner ==
    JObj("gtsId" :> JStr(InstF1) @@ "name" :> JStr("f") @@ "age" :> JNum(1)
         @@ "tags" :> JArr(<<JStr("x")>>) @@ "owner" :> JStr(OtherType))

CastDocs == {DocSchemaA2, DocSchemaB, DocInstE0, DocInstOwner}

CastInstanceIds == {InstE0, InstF1}

CastTargetIds == {TypeB, InstE0}

AttributePaths == {InstF1 \o "@tags[0]", InstE0 \o "@name.x", InstE0}

-----------------------------------------------------------------------------
(* The state machine                                                       *)

Init ==
    /\ validateRefs \in BOOLEAN
    /\ byId = <<>>
    /\ last = [op |-> "new", outcome |-> "returned"]

\* gts.register(content)
Register(content) ==
    \E r \in {GTS_register(byId, validateRefs, content)} :
        /\ Len(r.store) <= MaxEntities
        /\ byId' = r.store
        /\ last' = [op |-> "register", arg |-> content,
                    outcome |-> IF r.thrown THEN "thrown" ELSE "returned", error |-> r.error]
        /\ UNCHANGED validateRefs

\* gts.get(id)
Get(id) ==
    /\ last' = [op |-> "get", arg |-> id, outcome |-> "returned", result |-> GTS_get(byId, id)]
    /\ UNCHANGED <<validateRefs, byId>>

\* store.getAll()
GetAll ==
    /\ last' = [op |-> "getAll", outcome |-> "returned", result |-> getAll(byId)]
    /\ UNCHANGED <<validateRefs, byId>>

\* store.query(pattern, limit)
StoreQuery(pattern, limit) ==
    /\ last' = [op |-> "store.query", pattern |-> pattern, limit |-> limit,
                outcome |-> "returned", result |-> query(byId, pattern, limit)]
    /\ UNCHANGED <<validateRefs, byId>>

\* gts.query(expression, limit)
Query(expression, limit) ==
    /\ last' = [op |-> "query", expression |-> expression, limit |-> limit,
                outcome |-> "returned", result |-> GtsQuery_query(byId, expression, limit)]
    /\ UNCHANGED <<validateRefs, byId>>

RegisterStoreDoc == \E content \in StoreDocs : Register(content)
GetStoreId == \E id \in StoreIds : Get(id)

NextStore ==
    \/ RegisterStoreDoc
    \/ GetStoreId
    \/ GetAll

\* the registry: registration, lookup and enumeration
SpecStore == Init /\ [][NextStore]_vars

-----------------------------------------------------------------------------
(* Claims about the registry                                               *)

\* C1: with validateRefs set, register succeeds only if every id in
\* entity.references is already a key of the registry; otherwise it fails with
\* an 'Unresolved reference' error and leaves the registry (keys, order,
\* stored entities) exactly as it was. Without validateRefs register never
\* fails because of references.
C1_RegisterStep ==
    last'.op = "register" =>
        LET entity == createJsonEntity(last'.arg)
        IN  IF validateRefs /\ ~(entity.references \subseteq KeySet(byId))
            THEN /\ last'.outcome = "thrown"
                 /\ StartsWith(last'.error, "Unresolved reference")
                 /\ byId' = byId
            ELSE /\ last'.outcome = "returned"
                 /\ MapHas(byId', entity.id)
C1_UnresolvedReferenceRefused == [][C1_RegisterStep]_vars

\* a registration was refused for an unresolved reference while the registry held entities
C1_Witness ==
    /\ validateRefs
    /\ last.op = "register"
    /\ last.outcome = "thrown"
    /\ Len(byId) > 0

\* C2: in a registry with validateRefs set, every id in the references of every
\* stored entity is itself a key of the registry, after any sequence of
\* register calls.
C2_ReferentialIntegrity ==
    validateRefs => \A i \in 1..Len(byId) : byId[i].references \subseteq KeySet(byId)

\* an entity with two references was stored over an earlier entity of its id
C2_Witness ==
    /\ validateRefs
    /\ last.op = "register"
    /\ last.outcome = "returned"
    /\ \E i \in 1..Len(byId) : byId[i].content = DocInstE0b
    /\ \E i \in 1..Len(byId) : byId[i].content = DocInstF1

\* C3: the registry holds at most one entity per id; get(id) returns the
\* entity most recently registered under id; getAll() lists the entities in
\* the order in which their ids were first registered (re-registering an id
\* replaces the entity and keeps its position).
C3_RegisterStep ==
    (last'.op = "register" /\ last'.outcome = "returned") =>
        \A entity \in {createJsonEntity(last'.arg)} :
            /\ get(byId', entity.id) = <<entity>>
            /\ \A id \in KeySet(byId) \ {entity.id} : get(byId', id) = get(byId, id)
            /\ Keys(getAll(byId')) = IF entity.id \in KeySet(byId)
                                     THEN Keys(getAll(byId))
                                     ELSE Append(Keys(getAll(byId)), entity.id)
            /\ \A i, j \in 1..Len(byId') : byId'[i].id = byId'[j].id => i = j
C3_OneEntityPerIdInFirstRegistrationOrder == [][C3_RegisterStep]_vars

\* the entity registered last sits before another one: its id was re-registered
C3_Witness ==
    /\ last.op = "register"
    /\ last.outcome = "returned"
    /\ Len(byId) >= 2
    /\ byId[1].content = last.arg

\* C4: every key of the registry is a non-empty valid GTS identifier, after any
\* sequence of GTS.register(content) calls.
C4_KeysAreValidIds ==
    \A i \in 1..Len(byId) : byId[i].id # "" /\ isValidGtsID(byId[i].id)

\* C5: every operation of the library API reports a failure as a returned
\* result record and never lets a thrown error reach the caller.
C5_NothingThrown == last.outcome = "returned"


RegisterQueryDoc == \E content \in QueryDocs : Register(content)
StoreQueryAny == \E pattern \in QueryPatterns, limit \in Limits : StoreQuery(pattern, limit)
QueryAny == \E expression \in QueryExpressions, limit \in Limits : Query(expression, limit)

NextQuery ==
    \/ RegisterQueryDoc
    \/ StoreQueryAny
    \/ QueryAny

\* the registry and its two query operations
SpecQuery == Init /\ [][NextQuery]_vars

-----------------------------------------------------------------------------
(* Claims about query                                                      *)


Take(seq, n) == SubSeq(seq, 1, Min(n, Len(seq)))

\* the entities of the store whose id matches the pattern, in the store's order
MatchingEntities(store, pattern) ==
    LET Matches(e) == matchIDPattern(e.id, pattern).match
    IN  SelectSeq(store, Matches)

\* C7: query returns, in registration order, the entities whose id satisfies
\* matchIDPattern(id, pattern), cut off after the first `limit` matches; for
\* GtsStore.query (ids) and for GTS.query with a filter-less expression
\* (contents, count = number of items).
C7_QueryIsFirstMatchesInOrder ==
    /\ last.op = "store.query" =>
          LET expected == Take(MatchingEntities(byId, last.pattern),
                               IF last.limit = <<>> THEN Len(byId) ELSE last.limit[1])
          IN  last.result = Keys(expected)
    /\ (last.op = "query" /\ ~Includes(last.expression, "[")) =>
          LET expected == Take(MatchingEntities(byId, last.expression),
                               IF last.limit = <<>> THEN DEFAULT_QUERY_LIMIT ELSE last.limit[1])
          IN  /\ last.result.items = [i \in 1..Len(expected) |-> expected[i].content]
              /\ last.result.count = Len(last.result.items)

-----------------------------------------------------------------------------
(* Validation                                                              *)

\* gts.validateInstance(id)
Validate(id) ==
    /\ last' = [op |-> "validateInstance", arg |-> id, outcome |-> "returned",
                result |-> GTS_validateInstance(byId, id)]
    /\ UNCHANGED <<validateRefs, byId>>

RegisterValidateDoc == \E content \in ValidateDocs : Register(content)
ValidateAny == \E id \in ValidateIds : Validate(id)

NextValidate ==
    \/ RegisterValidateDoc
    \/ ValidateAny

\* the registry with instance validation
SpecValidate == Init /\ [][NextValidate]_vars

\* C8: validateInstance(id) returns ok = false with a non-empty error when id
\* is invalid, when no entity is registered under id, when the entity has no
\* schema id, when no entity is registered under that schema id, or when that
\* entity is not a schema; an instance that lacks a property required by its
\* schema gets ok = false with an error naming the required property; in
\* every result ok equals valid, and ok = true implies that error is "".
C8_ValidateInstanceVerdict ==
    last.op = "validateInstance" =>
        LET r == last.result
            parsed == parseGtsID(last.arg)
            Registered(id) == \E i \in 1..Len(byId) : byId[i].id = id
            Entity(id) == byId[CHOOSE i \in 1..Len(byId) : byId[i].id = id]
            entity == Entity(parsed.id)
            schema == Entity(entity.schemaId[1])
            unjudgeable ==
                \/ ~parsed.ok
                \/ ~Registered(parsed.id)
                \/ entity.schemaId = None
                \/ ~Registered(entity.schemaId[1])
                \/ ~schema.isSchema
            required == StringItems(GetProp(schema.content, "required"))
            lacking == {required[i] : i \in {j \in 1..Len(required) : ~HasProp(entity.content, required[j])}}
        IN  /\ r.ok = r.valid
            /\ r.ok => r.error = ""
            /\ unjudgeable => ~r.ok /\ r.error # ""
            /\ (~unjudgeable /\ lacking # {}) =>
                  /\ ~r.ok
                  /\ Includes(r.error, "required")
                  /\ \E prop \in lacking : Includes(r.error, "'" \o prop \o "'")

\* an instance without the name that its registered schema requires was judged
C8_Witness ==
    /\ last.op = "validateInstance"
    /\ last.arg = InstG1
    /\ \E i \in 1..Len(byId) : byId[i].content = DocSchemaA
    /\ \E i \in 1..Len(byId) : byId[i].content = DocInstG1
    /\ ~last.result.ok

-----------------------------------------------------------------------------
(* Casting and the other read operations                                   *)

\* the registry after a call has written val into the object that ref refers to
WriteBack(store, ref) ==
    IF ref.owner = None THEN store
    ELSE [i \in 1..Len(store) |->
             IF store[i].id = ref.owner[1] THEN [store[i] EXCEPT !.content = ref.val] ELSE store[i]]

\* store.castInstance(instanceId, toSchemaId)
StoreCast(instanceId, toSchemaId) ==
    \E r \in {castInstance(byId, instanceId, toSchemaId)} :
        /\ byId' = WriteBack(byId, r.casted_entity)
        /\ last' = [op |-> "store.castInstance", instanceId |-> instanceId, toSchemaId |-> toSchemaId,
                    outcome |-> "returned", result |-> r]
        /\ UNCHANGED validateRefs

\* gts.castInstance(fromId, toSchemaId)
Cast(fromId, toSchemaId) ==
    \E r \in {GtsCast_castInstance(byId, fromId, toSchemaId)} :
        /\ byId' = WriteBack(byId, r.result)
        /\ last' = [op |-> "castInstance", instanceId |-> fromId, toSchemaId |-> toSchemaId,
                    outcome |-> "returned", result |-> r]
        /\ UNCHANGED validateRefs

\* gts.checkCompatibility(oldId, newId)
CheckCompatibility(oldId, newId) ==
    /\ last' = [op |-> "checkCompatibility", oldId |-> oldId, newId |-> newId, outcome |-> "returned",
                result |-> checkCompatibility(byId, oldId, newId)]
    /\ UNCHANGED <<validateRefs, byId>>

\* gts.resolveRelationships(id)
ResolveRelationships(id) ==
    /\ last' = [op |-> "resolveRelationships", arg |-> id, outcome |-> "returned",
                result |-> resolveRelationships(byId, id)]
    /\ UNCHANGED <<validateRefs, byId>>

\* gts.getAttribute(path)
GetAttribute(path) ==
    /\ last' = [op |-> "getAttribute", arg |-> path, outcome |-> "returned",
                result |-> GTS_getAttribute(byId, path)]
    /\ UNCHANGED <<validateRefs, byId>>

RegisterCastDoc == \E content \in CastDocs : Register(content)
StoreCastAny == \E instanceId \in CastInstanceIds, toSchemaId \in CastTargetIds : StoreCast(instanceId, toSchemaId)
CastAny == \E fromId \in CastInstanceIds, toSchemaId \in CastTargetIds : Cast(fromId, toSchemaId)
ValidateCastInstance == \E id \in CastInstanceIds : Validate(id)
CheckCompatibilityAny == \E newId \in CastTargetIds : CheckCompatibility(TypeA, newId)
ResolveRelationshipsAny == \E id \in CastInstanceIds : ResolveRelationships(id)
GetAttributeAny == \E path \in AttributePaths : GetAttribute(path)
QueryAll == Query("gts.a.*", <<>>)

NextCast ==
    \/ RegisterCastDoc
    \/ StoreCastAny
    \/ CastAny
    \/ ValidateCastInstance
    \/ CheckCompatibilityAny
    \/ ResolveRelationshipsAny
    \/ GetAttributeAny
    \/ QueryAll

\* the registry with casting and the other read operations
SpecCast == Init /\ [][NextCast]_vars

-----------------------------------------------------------------------------
(* Claims about casting and the read operations                            *)

\* C6: the read operations validateInstance, checkCompatibility, castInstance
\* (of GtsCast and of GtsStore), resolveRelationships, query and getAttribute
\* leave the id-map, its order and the content of every stored entity
\* unchanged, and the result of a cast is a new value: an object that the
\* registry does not hold and that holds no object of the registry.
C6_ReadStep ==
    last'.op \in {"validateInstance", "checkCompatibility", "castInstance", "store.castInstance",
                  "resolveRelationships", "query", "getAttribute"} =>
        /\ byId' = byId
        /\ (last'.op = "store.castInstance" /\ last'.result.ok) =>
              last'.result.casted_entity.owner = None /\ last'.result.casted_entity.shared = {}
        /\ (last'.op = "castInstance" /\ last'.result.ok) =>
              last'.result.result.owner = None /\ last'.result.result.shared = {}
C6_ReadOperationsKeepRegistry == [][C6_ReadStep]_vars

\* the id under which the result of a cast is registered as a new instance
FreshId == "gts.a.b.c.d.v1~a.b.c.fresh.v1"

\* C9: whenever GtsStore.castInstance(i, T) to a registered schema T returns
\* ok = true with cast entity r, a new instance with content r and schema id
\* T, once registered, is judged ok = true by validateInstance, const
\* constraints on GTS identifiers weakened as the cast weakens them; also
\* when T has x-gts-ref constraints.
C9_CastResultValidates ==
    (/\ last.op = "store.castInstance"
     /\ last.result.ok
     /\ \E i \in 1..Len(byId) : byId[i].id = last.toSchemaId /\ byId[i].isSchema) =>
        LET r == last.result.casted_entity.val
            fresh == [id |-> FreshId, schemaId |-> Some(last.toSchemaId), content |-> r,
                      isSchema |-> FALSE, references |-> findReferences(r)]
            weakened == [i \in 1..Len(byId) |->
                            IF byId[i].id = last.toSchemaId
                            THEN [byId[i] EXCEPT !.content = removeGtsConstConstraints(byId[i].content)]
                            ELSE byId[i]]
            registered == register(weakened, validateRefs, fresh)
        IN  ~registered.thrown => validateInstance(registered.store, FreshId).ok

\* C10: when the target schema requires a property that the source instance
\* does not have, castInstance does not return ok = true if the property
\* declares no default, and a result it returns with ok = true carries the
\* default if the property declares one; for GTS.castInstance and for
\* GtsStore.castInstance.
C10_MissingRequiredProperty ==
    (/\ last.op \in {"store.castInstance", "castInstance"}
     /\ \E i \in 1..Len(byId) : byId[i].id = last.instanceId
     /\ \E i \in 1..Len(byId) : byId[i].id = last.toSchemaId) =>
        LET Entity(id) == byId[CHOOSE i \in 1..Len(byId) : byId[i].id = id]
            instance == Entity(last.instanceId).content
            target == Entity(last.toSchemaId).content
            required == StringItems(GetProp(target, "required"))
            Default(prop) == GetProp(GetProp(GetProp(target, "properties"), prop), "default")
            result == IF last.op = "castInstance" THEN last.result.result.val
                      ELSE last.result.casted_entity.val
        IN  \A i \in 1..Len(required) :
                ~HasProp(instance, required[i]) =>
                    IF Default(required[i]) = JUndef
                    THEN ~last.result.ok
                    ELSE last.result.ok => GetProp(result, required[i]) = Default(required[i])

-----------------------------------------------------------------------------
(* Compatibility of schema versions                                        *)

TypeC == "gts.a.b.c.d.v1.2~"
TypeD == "gts.a.b.c.d.v2~"

\* the schema the others are compared with
DocCompatA ==
    JObj("$id" :> JStr(TypeA) @@ "$schema" :> JStr(SCHEMA_URL) @@ "type" :> JStr("object")
         @@ "properties" :> JObj("name" :> JObj("type" :> JStr("string"))
                                 @@ "kind" :> JObj("type" :> JStr("string")
                                                   @@ "enum" :> JArr(<<JStr("x"), JStr("y")>>)))
         @@ "required" :> JArr(<<JStr("name")>>))

\* DocCompatA and an optional property with a default
DocCompatB ==
    JObj("$id" :> JStr(TypeB) @@ "$schema" :> JStr(SCHEMA_URL) @@ "type" :> JStr("object")
         @@ "properties" :> JObj("name" :> JObj("type" :> JStr("string"))
                                 @@ "kind" :> JObj("type" :> JStr("string")
                                                   @@ "enum" :> JArr(<<JStr("x"), JStr("y")>>))
                                 @@ "nick" :> JObj("type" :> JStr("string") @@ "default" :> JStr("n")))
         @@ "required" :> JArr(<<JStr("name")>>))

\* DocCompatA and a required property without default
DocCompatC ==
    JObj("$id" :> JStr(TypeC) @@ "$schema" :> JStr(SCHEMA_URL) @@ "type" :> JStr("object")
         @@ "properties" :> JObj("name" :> JObj("type" :> JStr("string"))
                                 @@ "kind" :> JObj("type" :> JStr("string")
                                                   @@ "enum" :> JArr(<<JStr("x"), JStr("y")>>))
                                 @@ "email" :> JObj("type" :> JStr("string")))
         @@ "required" :> JArr(<<JStr("name"), JStr("email")>>))

\* another name for the required property, a number for kind
DocCompatD ==
    JObj("$id" :> JStr(TypeD) @@ "$schema" :> JStr(SCHEMA_URL) @@ "type" :> JStr("object")
         @@ "properties" :> JObj("fullName" :> JObj("type" :> JStr("string"))
                                 @@ "kind" :> JObj("type" :> JStr("number")))
         @@ "required" :> JArr(<<JStr("fullName")>>))

CompatDocs == {DocCompatA, DocCompatB, DocCompatC, DocCompatD, DocInstE0}

CompatOldIds == {TypeA, InstE0}

CompatNewIds == {TypeB, TypeC, TypeD, "hello"}

RegisterCompatDoc == \E content \in CompatDocs : Register(content)
CheckCompatibilityOfIds == \E oldId \in CompatOldIds, newId \in CompatNewIds : CheckCompatibility(oldId, newId)

NextCompat ==
    \/ RegisterCompatDoc
    \/ CheckCompatibilityOfIds

\* the registry with the compatibility check
SpecCompat == Init /\ [][NextCompat]_vars

\* schema b is schema a, under another $id, with the one more property prop
AddsProperty(a, b, prop) ==
    LET aProps == GetProp(a, "properties")
        bProps == GetProp(b, "properties")
    IN  /\ IsObj(aProps) /\ IsObj(bProps)
        /\ prop \notin DOMAIN aProps.v
        /\ DOMAIN bProps.v = DOMAIN aProps.v \cup {prop}
        /\ \A q \in DOMAIN aProps.v : bProps.v[q] = aProps.v[q]
        /\ DOMAIN a.v = DOMAIN b.v
        /\ \A k \in DOMAIN a.v \ {"$id", "properties", "required"} : a.v[k] = b.v[k]

\* C11: in every result of GTS.checkCompatibility(A, B) is_fully_compatible
\* is (is_backward_compatible and is_forward_compatible); when schema B is
\* schema A plus one optional property that has a default, the result is
\* backward and forward compatible; when B is A plus one property listed in
\* required and without default, the result is not backward compatible.
C11_CompatibilityMonotonicity ==
    last.op = "checkCompatibility" =>
        LET r == last.result
            old == get(byId, last.oldId)
            new == get(byId, last.newId)
            Required(schema) == {StringItems(GetProp(schema, "required"))[i] :
                                    i \in 1..Len(StringItems(GetProp(schema, "required")))}
            HasDefault(schema, prop) == HasProp(GetProp(schema, "properties").v[prop], "default")
            Added(a, b) == DOMAIN GetProp(b, "properties").v \ DOMAIN GetProp(a, "properties").v
        IN  /\ r.is_fully_compatible = (r.is_backward_compatible /\ r.is_forward_compatible)
            /\ (old # <<>> /\ new # <<>> /\ old[1].isSchema /\ new[1].isSchema) =>
                  \A prop \in {p \in {"nick", "email", "fullName"} : AddsProperty(old[1].content, new[1].content, p)} :
                      /\ (HasDefault(new[1].content, prop) /\ Required(new[1].content) = Required(old[1].content)) =>
                            r.is_backward_compatible /\ r.is_forward_compatible
                      /\ (~HasDefault(new[1].content, prop)
                          /\ Required(new[1].content) = Required(old[1].content) \cup {prop}) =>
                            ~r.is_backward_compatible

-----------------------------------------------------------------------------
(* x-gts-ref under the combinators oneOf, anyOf and allOf                  *)

TypeR == "gts.a.b.c.r.v1~"
InstRI == "gts.a.b.c.r.v1~a.b.c.i.v1"
NarrowPattern == "gts.a.b.c.d.*"
WidePattern == "gts.a.b.c.*"
OtherPattern == "gts.x.*"

XRef(pattern) == JObj("x-gts-ref" :> JStr(pattern))

\* a schema whose properties each carry one combinator: branches that all
\* carry an x-gts-ref (one, any, all) and branches of which one carries none
DocRefSchema ==
    JObj("$id" :> JStr(TypeR) @@ "$schema" :> JStr(SCHEMA_URL) @@ "type" :> JStr("object")
         @@ "properties" :>
              JObj("one" :> JObj("type" :> JStr("string")
                                 @@ "oneOf" :> JArr(<<XRef(NarrowPattern), XRef(WidePattern)>>))
                   @@ "oneMixed" :> JObj("oneOf" :> JArr(<<XRef(WidePattern), JObj("type" :> JStr("string"))>>))
                   @@ "any" :> JObj("type" :> JStr("string")
                                    @@ "anyOf" :> JArr(<<XRef(NarrowPattern), XRef(OtherPattern)>>))
                   @@ "anyMixed" :> JObj("anyOf" :> JArr(<<XRef(OtherPattern), JObj("type" :> JStr("string"))>>))
                   @@ "all" :> JObj("type" :> JStr("string")
                                    @@ "allOf" :> JArr(<<XRef(NarrowPattern), XRef(WidePattern)>>))))

\* an instance of DocRefSchema: one value under the property one, one under the others
DocRefInst(oneValue, value) ==
    JObj("gtsId" :> JStr(InstRI) @@ "one" :> JStr(oneValue) @@ "oneMixed" :> JStr(value)
         @@ "any" :> JStr(value) @@ "anyMixed" :> JStr(value) @@ "all" :> JStr(value))

RefValues == {InstE0, TypeR, "hello"}

RefDocs == {DocRefSchema, DocInstE0, DocRefInst(TypeR, InstE0)}
             \cup {DocRefInst(value, value) : value \in RefValues}

RegisterRefDoc == \E content \in RefDocs : Register(content)
ValidateRefInstance == Validate(InstRI)

NextRef ==
    \/ RegisterRefDoc
    \/ ValidateRefInstance

\* the registry with the validation of x-gts-ref constraints
SpecRef == Init /\ [][NextRef]_vars

\* the JSON value has the key x-gts-ref, at any depth
RECURSIVE MentionsXGtsRef(_)
MentionsXGtsRef(value) ==
    IF IsObj(value)
    THEN "x-gts-ref" \in DOMAIN value.v \/ \E k \in DOMAIN value.v : MentionsXGtsRef(value.v[k])
    ELSE IsArr(value) /\ \E i \in 1..Len(value.v) : MentionsXGtsRef(value.v[i])

\* C12: under a oneOf of which every branch contains an x-gts-ref, the
\* x-gts-ref check of a string value reports nothing iff exactly one branch
\* reports nothing; when no branch passes it reports the errors of all
\* branches, in order; when two or more pass it reports the single error
\* 'Value matches N oneOf branches but must match exactly one', and a
\* validateInstance that gets as far as the x-gts-ref check (the JSON-Schema
\* engine accepts the instance) then returns ok = false with 'oneOf' in the
\* error. A oneOf with a branch that contains no x-gts-ref reports nothing.
C12_OneOfRefCheck ==
    (/\ last.op = "validateInstance"
     /\ get(byId, InstRI) # <<>>
     /\ get(byId, TypeR) # <<>>) =>
        LET instance == get(byId, InstRI)[1].content
            schema == get(byId, TypeR)[1].content
            properties == GetProp(schema, "properties").v
            checked == {p \in DOMAIN properties : IsArr(GetProp(properties[p], "oneOf")) /\ IsStr(GetProp(instance, p))}
            branches(p) == properties[p].v["oneOf"].v
            Errors(p) == visitInstance(byId, instance.v[p], JObj("oneOf" :> JArr(branches(p))), p, schema)
            Branch(p, i) == visitInstance(byId, instance.v[p], branches(p)[i], p, schema)
            Passing(p) == {i \in 1..Len(branches(p)) : Branch(p, i) = <<>>}
            AllRef(p) == \A i \in 1..Len(branches(p)) : MentionsXGtsRef(branches(p)[i])
            TooMany(p) == [fieldPath |-> p,
                           reason |-> "Value matches " \o NatToString(Cardinality(Passing(p)))
                                      \o " oneOf branches but must match exactly one"]
        IN  \A p \in checked :
                IF AllRef(p)
                THEN /\ (Errors(p) = <<>>) <=> (Cardinality(Passing(p)) = 1)
                     /\ Passing(p) = {} =>
                            Errors(p) = Concat([i \in 1..Len(branches(p)) |-> Branch(p, i)], 1)
                     /\ Cardinality(Passing(p)) > 1 =>
                            /\ Errors(p) = <<TooMany(p)>>
                            /\ AjvErrors(normalizeSchema(schema), instance, "") = <<>> =>
                                  ~last.result.ok /\ Includes(last.result.error, "oneOf")
                ELSE Errors(p) = <<>>

\* validateInstance has reported two passing branches of a oneOf
C12_Witness ==
    /\ last.op = "validateInstance"
    /\ ~last.result.ok
    /\ Includes(last.result.error, "Value matches 2 oneOf branches but must match exactly one")

\* C13: under an allOf the x-gts-ref check of a string value reports the
\* errors of every branch, in order; under an anyOf of which every branch
\* contains an x-gts-ref it reports nothing iff at least one branch reports
\* nothing, and the errors of all branches otherwise; an anyOf with a branch
\* that contains no x-gts-ref reports nothing. What the check reports fails
\* a validateInstance that gets as far as the x-gts-ref check.
C13_AnyOfAllOfRefCheck ==
    (/\ last.op = "validateInstance"
     /\ get(byId, InstRI) # <<>>
     /\ get(byId, TypeR) # <<>>) =>
        LET instance == get(byId, InstRI)[1].content
            schema == get(byId, TypeR)[1].content
            properties == GetProp(schema, "properties").v
            Checked(combinator) ==
                {p \in DOMAIN properties : IsArr(GetProp(properties[p], combinator)) /\ IsStr(GetProp(instance, p))}
            branches(p, combinator) == properties[p].v[combinator].v
            Errors(p, combinator) ==
                visitInstance(byId, instance.v[p], JObj(combinator :> JArr(branches(p, combinator))), p, schema)
            Branch(p, combinator, i) == visitInstance(byId, instance.v[p], branches(p, combinator)[i], p, schema)
            All(p, combinator) ==
                Concat([i \in 1..Len(branches(p, combinator)) |-> Branch(p, combinator, i)], 1)
            Fails(errors) ==
                AjvErrors(normalizeSchema(schema), instance, "") = <<>> =>
                    /\ ~last.result.ok
                    /\ \A i \in 1..Len(errors) : Includes(last.result.error, errors[i].reason)
        IN  /\ \A p \in Checked("allOf") :
                  /\ Errors(p, "allOf") = All(p, "allOf")
                  /\ Errors(p, "allOf") # <<>> => Fails(Errors(p, "allOf"))
            /\ \A p \in Checked("anyOf") :
                  IF \A i \in 1..Len(branches(p, "anyOf")) : MentionsXGtsRef(branches(p, "anyOf")[i])
                  THEN /\ Errors(p, "anyOf") =
                            IF \E i \in 1..Len(branches(p, "anyOf")) : Branch(p, "anyOf", i) = <<>>
                            THEN <<>> ELSE All(p, "anyOf")
                       /\ Errors(p, "anyOf") # <<>> => Fails(Errors(p, "anyOf"))
                  ELSE Errors(p, "anyOf") = <<>>

\* validateInstance has passed a value of which one anyOf branch reports an
\* error and another reports none
C13_Witness ==
    /\ last.op = "validateInstance"
    /\ last.result.ok
    /\ get(byId, InstRI) # <<>>
    /\ get(byId, TypeR) # <<>>
    /\ LET value == GetProp(get(byId, InstRI)[1].content, "any")
           schema == get(byId, TypeR)[1].content
       IN  /\ IsStr(value)
           /\ visitInstance(byId, value, XRef(OtherPattern), "any", schema) # <<>>
           /\ visitInstance(byId, value, XRef(NarrowPattern), "any", schema) = <<>>

-----------------------------------------------------------------------------
(* Classification of documents by extractID                                *)

JsonSchemaUrl == "http://json-schema.org/draft-07/schema#"

\* the values given to $schema, to $$schema, to $id and to type; JUndef is
\* a document without the field
DollarSchemaValues ==
    {JUndef, JNull, JNum(1), JStr(""), JStr("foo"), JStr("xgts.a"), JStr(JsonSchemaUrl),
     JStr("https://my-json-schema.org/x"), JStr("gts://" \o TypeA), JStr(TypeA)}
DollarDollarSchemaValues == {JUndef, JStr("foo"), JStr(JsonSchemaUrl), JStr(TypeA)}
DollarIdValues == {JUndef, JStr(TypeA), JStr(InstE0)}
TypeValues == {JUndef, JStr("object")}

ExtractDoc(dollarSchema, dollarDollarSchema, dollarId, type) ==
    LET fields == ("$schema" :> dollarSchema) @@ ("$$schema" :> dollarDollarSchema)
                  @@ ("$id" :> dollarId) @@ ("type" :> type)
    IN  JObj([k \in {f \in DOMAIN fields : fields[f] # JUndef} |-> fields[k]])

ExtractDocs ==
    {ExtractDoc(dollarSchema, dollarDollarSchema, dollarId, type) :
        dollarSchema \in DollarSchemaValues, dollarDollarSchema \in DollarDollarSchemaValues,
        dollarId \in DollarIdValues, type \in TypeValues}
    \cup {JNull, JStr(TypeA)}

\* extractID(content)
ExtractID(content) ==
    /\ last' = [op |-> "extractID", arg |-> content, outcome |-> "returned",
                result |-> extractID(content, JUndef)]
    /\ UNCHANGED <<validateRefs, byId>>

ExtractIDOfDoc == \E content \in ExtractDocs : ExtractID(content)

NextExtract == ExtractIDOfDoc

\* extractID applied to documents
SpecExtract == Init /\ [][NextExtract]_vars

\* the document has a $schema or $$schema field whose string value contains
\* 'json-schema.org' or begins with 'gts://' or 'gts.'
HasSchemaMarker(content) ==
    /\ IsObj(content)
    /\ \E field \in {"$schema", "$$schema"} :
          /\ IsStr(GetProp(content, field))
          /\ \/ Includes(GetProp(content, field).v, "json-schema.org")
             \/ StartsWith(GetProp(content, field).v, "gts://")
             \/ StartsWith(GetProp(content, field).v, "gts.")

\* C14: extractID gives is_schema = true iff the document has a $schema or
\* $$schema field whose string value contains 'json-schema.org' or begins
\* with 'gts://' or 'gts.'; a document without such a field is an instance
\* even when its $id ends with '~'; and two documents with the same $schema
\* and $$schema get the same is_schema.
C14_SchemaClassification ==
    last.op = "extractID" =>
        /\ last.result.is_schema <=> HasSchemaMarker(last.arg)
        /\ \A other \in ExtractDocs :
              (/\ IsObj(other)
               /\ IsObj(last.arg)
               /\ GetProp(other, "$schema") = GetProp(last.arg, "$schema")
               /\ GetProp(other, "$$schema") = GetProp(last.arg, "$$schema"))
                  => extractID(other, JUndef).is_schema = last.result.is_schema

-----------------------------------------------------------------------------
(* Validation and parsing of identifiers                                   *)

\* the text after 'gts.': a first chain segment and what follows it
FirstSegmentTexts ==
    {"a.b.c.d.v1~", "a.b.c.d.v1.0~", "a.b.c.d.v2~", "a.b._.e.v0~", "a.b.c.d.v1", "a.b.c.d.v1.0",
     "a.b.c.d", "a.b.c.d.v01~", "a.b.c.d.1~", "a.b.c.d.v1.0.0~", "a.b.c.d.v1~~",
     "*", "a.*", "a.b.c.*", "a.b.c.d.*", "a.b.c.d.v1.*",
     "a.b.c*", "a.b.c.*d", "a.*.c.d.v1~", "a.b.c.d.*.0", "a.*~", "a.*.*",
     "1a.*", "a.b.c.d.1.*", "a.b.c.d.v1.01", "1a.b.c.d.v1~"}
RestTexts ==
    {"", "a.b.c.e.v0", "a.b.c.e.v1.2", "x.y.z.w.v1~", "*", "a.*", "a.b.c.e.*", "a.b*", " a.b.c.e.v0"}

Ids ==
    {GTS_PREFIX \o first \o rest : first \in FirstSegmentTexts, rest \in RestTexts}
    \cup {"invalid", "GTS.a.b.c.d.v1~", "gts.a-b.c.d.v1~", GTS_PREFIX, " gts.a.b.c.d.v1~", "gts.a.b.c.d.v1~ ",
          "gts.vendor.pkg.a*", "gts.vendor.pkg.*a", "gts.vendor.*.ns.type.v1~",
          "gts.vendor.pkg.ns.type.v1~vendor.*", "gts.vendor.pkg.ns.type.v1.0",
          "gts.vendor.pkg.ns.type.v1~vendor.pkg.ns.instance.v1.0"}

\* a caller holds an identifier
InitIds ==
    /\ validateRefs = FALSE
    /\ byId = <<>>
    /\ last \in {[op |-> "given", id |-> id] : id \in Ids}

\* parseGtsID(id)
ParseGtsID ==
    /\ last.op = "given"
    /\ \E r \in {parseGtsID(last.id)} :
          last' = [op |-> "parseGtsID", arg |-> last.id,
                   outcome |-> IF r.ok THEN "returned" ELSE "thrown", result |-> r]
    /\ UNCHANGED <<validateRefs, byId>>

\* isValidGtsID(id)
IsValidGtsID ==
    /\ last.op = "given"
    /\ last' = [op |-> "isValidGtsID", arg |-> last.id, outcome |-> "returned",
                result |-> isValidGtsID(last.id)]
    /\ UNCHANGED <<validateRefs, byId>>

\* validateGtsID(id)
ValidateGtsID ==
    /\ last.op = "given"
    /\ last' = [op |-> "validateGtsID", arg |-> last.id, outcome |-> "returned",
                result |-> validateGtsID(last.id)]
    /\ UNCHANGED <<validateRefs, byId>>

\* idToUUID(id)
IdToUUID ==
    /\ last.op = "given"
    /\ last' = [op |-> "idToUUID", arg |-> last.id, outcome |-> "returned",
                result |-> idToUUID(last.id)]
    /\ UNCHANGED <<validateRefs, byId>>

NextIds ==
    \/ ParseGtsID
    \/ IsValidGtsID
    \/ ValidateGtsID
    \/ IdToUUID

\* the identifier functions applied to an identifier
SpecIds == InitIds /\ [][NextIds]_vars

\* the identifier was rejected by the call made
Rejected ==
    \/ last.op = "parseGtsID" /\ last.outcome = "thrown"
    \/ last.op = "isValidGtsID" /\ ~last.result
    \/ last.op = "validateGtsID" /\ ~last.result.ok

\* '*' appears in x other than once as the complete final token
MisplacedWildcard(x) ==
    /\ Includes(x, "*")
    /\ ~(/\ CountChar(x, "*") = 1
         /\ \/ EndsWith(x, ".*")
            \/ EndsWith(x, "~*"))

\* C15: isValidGtsID, validateGtsID and parseGtsID reject every string in
\* which '*' appears other than once as the complete final token of the
\* whole identifier.
C15_WildcardOnlyAsFinalToken ==
    (/\ last.op \in {"parseGtsID", "isValidGtsID", "validateGtsID"}
     /\ MisplacedWildcard(last.arg)) => Rejected

\* C16: isValidGtsID returns false for every identifier made of exactly one
\* chain segment that does not end in '~' and has no wildcard.
C16_NoSingleSegmentInstance ==
    (/\ last.op = "isValidGtsID"
     /\ ~Includes(last.arg, "~")
     /\ ~Includes(last.arg, "*")) => ~last.result

\* the texts of the segments, one after the other
RECURSIVE SegmentTexts(_, _)
SegmentTexts(segments, i) ==
    IF i > Len(segments) THEN "" ELSE segments[i].segment \o SegmentTexts(segments, i + 1)

\* C17: for every string x that parseGtsID accepts, 'gts.' followed by the
\* recorded segment texts in order is x, and the recorded offset of each
\* segment is the position in x at which its text starts.
C17_IdRoundTrip ==
    (last.op = "parseGtsID" /\ last.outcome = "returned") =>
        LET x == last.arg
            segments == last.result.segments
        IN  /\ "gts." \o SegmentTexts(segments, 1) = x
            /\ \A i \in 1..Len(segments) :
                  /\ segments[i].offset + Len(segments[i].segment) <= Len(x)
                  /\ SubSeq(x, segments[i].offset + 1, segments[i].offset + Len(segments[i].segment))
                        = segments[i].segment

-----------------------------------------------------------------------------
(* Matching of identifiers against patterns                                *)

Candidates ==
    {"gts.a.b.c.d.v1~", "gts.a.b.c.d.v1.0~", "gts.a.b.c.d.v1.1~", "gts.a.b.c.d.v2~", "gts.a.b.c.e.v1~",
     "gts.x.b.c.d.v1~", "gts.a.x.c.d.v1~", "gts.a.b.x.d.v1~", "gts.a.b.c.d.v1", "gts.a.b.c.d.v1.0",
     "gts.a.b.c.d.v1~a.b.c.e.v0", "gts.a.b.c.d.v1~a.b.c.e.v1.2", "gts.a.b.c.d.v1.0~a.b.c.e.v1.2~",
     "gts.a.b.c.d.v1~x.y.z.w.v1~a.b.c.e.v0", "gts.a.b.c.*", "invalid"}

Patterns ==
    Candidates
    \cup {"gts.*", "gts.a.*", "gts.a.b.*", "gts.a.b.c.d.*", "gts.a.b.c.d.v1.*", "gts.a.b.c.d.v1~*",
          "gts.a.b.c.d.v1.0~*", "gts.a.b.c.d.v1~a.*", "gts.a.b.c.d.v1~a.b.c.e.*",
          "gts.a.b.c.d.v1~a.b.c.e.v1.*", "gts.x.*", "gts.a.*.*", "gts.a.b.c*", "gts.a.b.c.d.v1~x.y.z.w.v1~*",
          "gts.a.b.c.d.v0.*", "gts.a.b.c.d.v1~a.b.c.e.v0.*", "gts.a.b.c.d.v2.*"}

\* a caller holds a candidate identifier and a pattern
InitMatch ==
    /\ validateRefs = FALSE
    /\ byId = <<>>
    /\ last \in {[op |-> "given", candidate |-> candidate, pattern |-> pattern] :
                    candidate \in Candidates, pattern \in Patterns}

\* matchIDPattern(candidate, pattern)
MatchIDPattern ==
    /\ last.op = "given"
    /\ last' = [op |-> "matchIDPattern", candidate |-> last.candidate, pattern |-> last.pattern,
                outcome |-> "returned", result |-> matchIDPattern(last.candidate, last.pattern)]
    /\ UNCHANGED <<validateRefs, byId>>

NextMatch == MatchIDPattern

\* matchIDPattern applied to a candidate and a pattern
SpecMatch == InitMatch /\ [][NextMatch]_vars

\* the rule for a pattern segment that is not a wildcard
SameButMinor(pSeg, cSeg) ==
    /\ pSeg.vendor = cSeg.vendor
    /\ pSeg.package = cSeg.package
    /\ pSeg.namespace = cSeg.namespace
    /\ pSeg.type = cSeg.type
    /\ pSeg.verMajor = cSeg.verMajor
    /\ pSeg.isType = cSeg.isType
    /\ \/ pSeg.verMinor = NoMinor
       \/ cSeg.verMinor # NoMinor /\ pSeg.verMinor = cSeg.verMinor

\* C18: a pattern segment that is not a wildcard matches the candidate
\* segment at its position iff vendor, package, namespace, type, major
\* version and type flag are equal and the pattern has no minor version or
\* has the candidate's; a pattern with more segments than the candidate
\* never matches; a pattern without wildcard whose segments all match does
\* match, also when the candidate has further segments.
C18_ExactSegmentMatch ==
    (/\ last.op = "matchIDPattern"
     /\ parseGtsID(last.candidate).ok
     /\ validateWildcard(last.pattern).ok) =>
        LET cSegs == parseGtsID(last.candidate).segments
            pSegs == validateWildcard(last.pattern).segments
        IN  /\ Len(pSegs) > Len(cSegs) => ~last.result.match
            /\ last.result.match =>
                  \A i \in 1..Len(pSegs) : ~pSegs[i].isWildcard => SameButMinor(pSegs[i], cSegs[i])
            /\ (\A i \in 1..Len(pSegs) : ~pSegs[i].isWildcard) =>
                  (last.result.match <=>
                      /\ Len(pSegs) <= Len(cSegs)
                      /\ \A i \in 1..Len(pSegs) : SameButMinor(pSegs[i], cSegs[i]))

\* a pattern of one segment without minor version has matched a candidate of
\* two segments whose first segment has a minor version
C18_Witness ==
    /\ last.op = "matchIDPattern"
    /\ last.result.match
    /\ last.pattern = "gts.a.b.c.d.v1~"
    /\ last.candidate = "gts.a.b.c.d.v1.0~a.b.c.e.v1.2~"

\* C19: if a wildcard pattern p matches a valid candidate c, then p with its
\* final '*' replaced by the token that c has at that position matches c.
C19_PatternSubset ==
    (/\ last.op = "matchIDPattern"
     /\ last.result.match
     /\ isValidGtsID(last.candidate)
     /\ EndsWith(last.pattern, "*")) =>
        LET cSegs == parseGtsID(last.candidate).segments
            pSegs == validateWildcard(last.pattern).segments
            k == Len(pSegs)
            position == Len(Split(pSegs[k].segment, "."))
            cText == cSegs[k].segment
            cTokens == Split(IF EndsWith(cText, "~") THEN SubSeq(cText, 1, Len(cText) - 1) ELSE cText, ".")
            Specific(token) == SubSeq(last.pattern, 1, Len(last.pattern) - 1) \o token
        IN  position <= Len(cTokens) =>
                matchIDPattern(last.candidate, Specific(cTokens[position])).match

-----------------------------------------------------------------------------
(* Normalisation of schemas                                                *)

\* the values given to $id or $$id and to $ref or $$ref
UriValues == {TypeA, GTS_URI_PREFIX \o TypeA, GTS_URI_PREFIX \o GTS_URI_PREFIX \o TypeA}

IdFields ==
    {EmptyObj.v} \cup {key :> JStr(value) : key \in {"$id", "$$id"}, value \in UriValues}

RefFields ==
    {EmptyObj.v} \cup {"properties" :> JObj("p" :> JObj(key :> JStr(value))) :
                          key \in {"$ref", "$$ref"}, value \in UriValues}

BranchLists ==
    {<<XRef(WidePattern)>>,
     <<XRef(WidePattern), JObj("type" :> JStr("string"))>>,
     <<JObj("type" :> JStr("string")), XRef(WidePattern), XRef(NarrowPattern)>>,
     <<JObj(("type" :> JStr("string")) @@ XRef(WidePattern).v)>>,
     <<JObj("oneOf" :> JArr(<<XRef(WidePattern)>>)), XRef(NarrowPattern)>>,
     <<EmptyObj, XRef(NarrowPattern), JObj("$$ref" :> JStr(TypeA))>>}

CombinatorFields ==
    {EmptyObj.v} \cup {combinator :> JArr(branches) :
                          combinator \in {"oneOf", "anyOf", "allOf"}, branches \in BranchLists}

NormalizeSchemas ==
    {JObj(id @@ ref @@ combinator) : id \in IdFields, ref \in RefFields, combinator \in CombinatorFields}

\* the store is about to normalise a schema
InitNormalize ==
    /\ validateRefs = FALSE
    /\ byId = <<>>
    /\ last \in {[op |-> "given", schema |-> schema] : schema \in NormalizeSchemas}

\* normalizeSchema(schema)
NormalizeSchema ==
    /\ last.op = "given"
    /\ last' = [op |-> "normalizeSchema", arg |-> last.schema, outcome |-> "returned",
                result |-> normalizeSchema(last.schema)]
    /\ UNCHANGED <<validateRefs, byId>>

NextNormalize == NormalizeSchema

\* normalizeSchema applied to a schema
SpecNormalize == InitNormalize /\ [][NextNormalize]_vars

\* a $id or $ref at any depth of the value is a string that begins with 'gts://'
RECURSIVE HasUriPrefixed(_)
HasUriPrefixed(value) ==
    IF IsObj(value)
    THEN \/ \E key \in {"$id", "$ref"} :
               IsStr(GetProp(value, key)) /\ StartsWith(GetProp(value, key).v, "gts://")
         \/ \E key \in DOMAIN value.v : HasUriPrefixed(value.v[key])
    ELSE IF IsArr(value)
    THEN \E i \in 1..Len(value.v) : HasUriPrefixed(value.v[i])
    ELSE FALSE

\* C20: normalising a normalised schema gives the same value again, and
\* after one normalisation no $id or $ref value begins with 'gts://'.
C20_NormalizeIdempotent ==
    last.op = "normalizeSchema" =>
        /\ normalizeSchema(last.result) = last.result
        /\ ~HasUriPrefixed(last.result)

-----------------------------------------------------------------------------
(* Query expressions with logical operators                                *)

DocSchemaX == JObj("$id" :> JStr(OtherType) @@ "$schema" :> JStr(SCHEMA_URL) @@ "type" :> JStr("object"))

LogicDocs == {DocSchemaA, DocInstE0, DocSchemaX}

LogicPatterns == {"gts.a.*", "gts.x.*", "gts.a.b.c.d.v1~a.*", TypeA}

LogicExpressions ==
    LogicPatterns
    \cup {p1 \o " OR " \o p2 : p1, p2 \in LogicPatterns}
    \cup {p1 \o " AND NOT " \o p2 : p1, p2 \in LogicPatterns}

RegisterLogicDoc == \E content \in LogicDocs : Register(content)
QueryLogic == \E expression \in LogicExpressions : Query(expression, <<>>)

NextLogic ==
    \/ RegisterLogicDoc
    \/ QueryLogic

\* the registry queried with expressions that combine patterns
SpecLogic == Init /\ [][NextLogic]_vars

\* C21: GTS.query('P1 OR P2') returns the entities whose id matches P1 or
\* P2, and GTS.query('P1 AND NOT P2') returns the entities whose id matches
\* P1 and does not match P2.
C21_LogicalOperators ==
    last.op = "query" =>
        \A p1, p2 \in LogicPatterns :
            LET Either(e) == matchIDPattern(e.id, p1).match \/ matchIDPattern(e.id, p2).match
                FirstOnly(e) == matchIDPattern(e.id, p1).match /\ ~matchIDPattern(e.id, p2).match
                Contents(entities) == [i \in 1..Len(entities) |-> entities[i].content]
            IN  /\ last.expression = p1 \o " OR " \o p2
                      => last.result.items = Contents(SelectSeq(byId, Either))
                /\ last.expression = p1 \o " AND NOT " \o p2
                      => last.result.items = Contents(SelectSeq(byId, FirstOnly))

-----------------------------------------------------------------------------
(* The x-gts-ref check of a value                                          *)

TypeV == "gts.a.b.c.v.v1~"
InstVI == "gts.a.b.c.v.v1~a.b.c.i.v1"

ValuePatterns == {"gts.*", NarrowPattern, TypeA, OtherPattern}

\* a schema with one property for each pattern but the last
DocValueSchema ==
    JObj("$id" :> JStr(TypeV) @@ "$schema" :> JStr(SCHEMA_URL) @@ "type" :> JStr("object")
         @@ "properties" :> JObj("any" :> JObj("type" :> JStr("string") @@ "x-gts-ref" :> JStr("gts.*"))
                                 @@ "star" :> JObj("type" :> JStr("string") @@ "x-gts-ref" :> JStr(NarrowPattern))
                                 @@ "exact" :> JObj("type" :> JStr("string") @@ "x-gts-ref" :> JStr(TypeA))))

DocValueInst(value) ==
    JObj("gtsId" :> JStr(InstVI) @@ "any" :> JStr(value) @@ "star" :> JStr(value) @@ "exact" :> JStr(value))

RefTargets == {InstE0, TypeA, TypeV, "hello", "gts.a.b.c.d.v1~a.b*"}

ValueDocs == {DocValueSchema, DocSchemaA, DocInstE0} \cup {DocValueInst(value) : value \in RefTargets}

RegisterValueDoc == \E content \in ValueDocs : Register(content)
ValidateValueInstance == Validate(InstVI)

NextValue ==
    \/ RegisterValueDoc
    \/ ValidateValueInstance

\* the registry with a schema whose properties carry an x-gts-ref
SpecValue == Init /\ [][NextValue]_vars

\* what the claim wants of a value v under the absolute pattern P
RefValueAccepted(v, P) ==
    /\ isValidGtsID(v)
    /\ \/ P = "gts.*"
       \/ EndsWith(P, "*") /\ StartsWith(v, SubSeq(P, 1, Len(P) - 1))
       \/ ~Includes(P, "*") /\ StartsWith(v, P)
    /\ \E i \in 1..Len(byId) : byId[i].id = v

\* C22: the x-gts-ref check of a string value v under the absolute pattern P
\* reports no error iff v is a valid GTS identifier, and P = 'gts.*' or P
\* ends in '*' and v begins with P without the '*' or P has no '*' and v
\* begins with P, and an entity with id v is registered when the check
\* runs; validateInstance of an instance the JSON Schema engine accepts is ok
\* iff all its values under an x-gts-ref are accepted in this sense.
C22_RefValueCheck ==
    /\ \A v \in RefTargets, P \in ValuePatterns :
          (visitInstance(byId, JStr(v), XRef(P), "f", EmptyObj) = <<>>) <=> RefValueAccepted(v, P)
    /\ (/\ last.op = "validateInstance"
        /\ get(byId, InstVI) # <<>>
        /\ get(byId, TypeV) # <<>>
        /\ AjvErrors(normalizeSchema(get(byId, TypeV)[1].content), get(byId, InstVI)[1].content, "") = <<>>) =>
           LET instance == get(byId, InstVI)[1].content
               properties == GetProp(get(byId, TypeV)[1].content, "properties").v
           IN  last.result.ok <=>
                   \A p \in DOMAIN properties :
                       RefValueAccepted(instance.v[p].v, properties[p].v["x-gts-ref"].v)

\* validateInstance has passed an instance that was first registered before
\* the entity its values refer to
C22_Witness ==
    /\ last.op = "validateInstance"
    /\ last.result.ok
    /\ \E i, j \in 1..Len(byId) :
          /\ i < j
          /\ byId[i].id = InstVI
          /\ GetProp(byId[i].content, "star") = JStr(byId[j].id)

\* the tokens of a segment text, without its '~'
SegmentTokens(text) ==
    Split(IF EndsWith(text, "~") THEN SubSeq(text, 1, Len(text) - 1) ELSE text, ".")

\* C23: a wildcard pattern segment matches the candidate segment at its
\* position iff every token the pattern gives before the '*' is the
\* candidate's token at that place, also for the version token v0; once
\* the wildcard segment matches, the result is a match whatever further
\* segments the candidate has.
C23_WildcardSegmentMatch ==
    (/\ last.op = "matchIDPattern"
     /\ isValidGtsID(last.candidate)
     /\ validateWildcard(last.pattern).ok
     /\ EndsWith(last.pattern, "*")) =>
        LET cSegs == parseGtsID(last.candidate).segments
            pSegs == validateWildcard(last.pattern).segments
            k == Len(pSegs)
            pTokens == SegmentTokens(pSegs[k].segment)
            given == Len(pTokens) - 1
        IN  last.result.match <=>
                /\ k <= Len(cSegs)
                /\ \A i \in 1..(k - 1) : SameButMinor(pSegs[i], cSegs[i])
                /\ \A cTokens \in {SegmentTokens(cSegs[k].segment)} :
                      /\ given <= Len(cTokens)
                      /\ \A t \in 1..given : pTokens[t] = cTokens[t]

\* the token is 'v' followed by a canonical non-negative integer
IsVersionToken(token) == StartsWith(token, "v") /\ IsCanonicalNat(Substring(token, 1))

\* C24: parseGtsID accepts a string only if in every chain segment every
\* vendor, package, namespace and type token other than '*' matches
\* [a-z_][a-z0-9_]*, the version token is 'v' followed by a canonical
\* non-negative integer, a minor is a canonical non-negative integer, and a
\* segment with fewer than 5 tokens has '*' as its last token.
C24_TokenGrammar ==
    (last.op = "parseGtsID" /\ last.outcome = "returned") =>
        \A i \in 1..Len(last.result.segments) :
            \A tokens \in {SegmentTokens(last.result.segments[i].segment)} :
                /\ \A t \in 1..Min(Len(tokens), 4) : tokens[t] = "*" \/ SEGMENT_TOKEN_REGEX(tokens[t])
                /\ Len(tokens) >= 5 => tokens[5] = "*" \/ IsVersionToken(tokens[5])
                /\ Len(tokens) >= 6 => tokens[6] = "*" \/ IsCanonicalNat(tokens[6])
                /\ Len(tokens) < 5 => tokens[Len(tokens)] = "*"

-----------------------------------------------------------------------------
(* The schema id of an instance document                                   *)

ChainedType == "gts.a.b.c.d.v1~a.b.c.e.v1~"

\* the field that holds the entity id and its value, and the values of the
\* schema-id candidate fields gtsTid and type; JUndef is a document without
\* the field
EntityIdFieldNames == {"$id", "$$id", "gtsId"}
EntityIdValues == {InstE0, TypeA, ChainedType, InstH1, "hello"}
GtsTidValues == {JUndef, JStr(OtherType), JStr("bad")}
TypeFieldValues == {JUndef, JStr(TypeB), JStr("object")}

InstanceDoc(idField, gtsTid, type) ==
    LET fields == idField @@ ("gtsTid" :> gtsTid) @@ ("type" :> type)
    IN  JObj([k \in {f \in DOMAIN fields : fields[f] # JUndef} |-> fields[k]])

InstanceDocs ==
    {InstanceDoc(idField, gtsTid, type) :
        idField \in {EmptyObj.v} \cup {name :> JStr(value) : name \in EntityIdFieldNames, value \in EntityIdValues},
        gtsTid \in GtsTidValues, type \in TypeFieldValues}

\* a caller holds a document
InitExtractInstance ==
    /\ validateRefs = FALSE
    /\ byId = <<>>
    /\ last \in {[op |-> "given", content |-> content] : content \in InstanceDocs}

\* extractID(content) of the document held
ExtractIDOfInstance ==
    /\ last.op = "given"
    /\ last' = [op |-> "extractID", arg |-> last.content, outcome |-> "returned",
                result |-> extractID(last.content, JUndef)]
    /\ UNCHANGED <<validateRefs, byId>>

NextExtractInstance == ExtractIDOfInstance

\* extractID applied to a document without $schema
SpecExtractInstance == InitExtractInstance /\ [][NextExtractInstance]_vars

\* C25: for an instance document, if the entity id was taken from a field
\* other than $id/$$id and is a chained non-type id, schema_id is the id up
\* to and including its last '~'; otherwise schema_id is the value of the
\* first schema-id candidate field, in the configured order, that holds a
\* valid GTS identifier, also when the entity id was taken from $id/$$id;
\* only if there is none and the id is a chained non-type id is schema_id
\* taken from the chain. selected_schema_id_field names the field that
\* supplied the value.
C25_InstanceSchemaId ==
    (last.op = "extractID" /\ ~last.result.is_schema) =>
        LET id == last.result.id
            chainedInstance ==
                /\ isValidGtsID(id)
                /\ Includes(id, "~")
                /\ ~EndsWith(id, "~")
            chainedType ==
                /\ isValidGtsID(id)
                /\ EndsWith(id, "~")
                /\ Includes(SubSeq(id, 1, Len(id) - 1), "~")
            fromDollarId == last.result.selected_entity_field \in {Some("$id"), Some("$$id")}
            fromChain == Some(SubSeq(id, 1, LastIndexOf(id, "~") + 1))
            candidates == {i \in 1..Len(schemaIdFields) :
                              /\ IsStr(GetProp(last.arg, schemaIdFields[i]))
                              /\ isValidGtsID(GetProp(last.arg, schemaIdFields[i]).v)}
            first == CHOOSE i \in candidates : \A j \in candidates : i <= j
        IN  IF chainedInstance /\ ~fromDollarId
            THEN /\ last.result.schema_id = fromChain
                 /\ last.result.selected_schema_id_field = last.result.selected_entity_field
            ELSE IF candidates # {}
            THEN /\ last.result.schema_id = Some(GetProp(last.arg, schemaIdFields[first]).v)
                 /\ last.result.selected_schema_id_field = Some(schemaIdFields[first])
            ELSE IF chainedInstance
            THEN /\ last.result.schema_id = fromChain
                 /\ last.result.selected_schema_id_field = last.result.selected_entity_field
            ELSE chainedType \/ last.result.schema_id = None

\* one of the keys is a key of an object at any depth of the value
RECURSIVE HasKeyAtAnyDepth(_, _)
HasKeyAtAnyDepth(value, keys) ==
    IF IsObj(value)
    THEN \/ DOMAIN value.v \cap keys # {}
         \/ \E key \in DOMAIN value.v : HasKeyAtAnyDepth(value.v[key], keys)
    ELSE IF IsArr(value)
    THEN \E i \in 1..Len(value.v) : HasKeyAtAnyDepth(value.v[i], keys)
    ELSE FALSE

-----------------------------------------------------------------------------
(* The compatibility check of the store (store.ts)                         *)

\* a > b of two numbers
GreaterThan(a, b) == a.t = "num" /\ b.t = "num" /\ a.v > b.v

\* GtsStore.checkMinMaxConstraint: the errors it returns
checkMinMaxConstraint(prop, oldSchema, newSchema, minKey, maxKey, checkTightening) ==
    LET oldMin == GetProp(oldSchema, minKey)
        newMin == GetProp(newSchema, minKey)
        oldMax == GetProp(oldSchema, maxKey)
        newMax == GetProp(newSchema, maxKey)
        Minimum ==
            IF checkTightening
            THEN IF oldMin # JUndef /\ newMin # JUndef /\ GreaterThan(newMin, oldMin)
                 THEN <<"Property '" \o prop \o "' " \o minKey \o " increased from "
                        \o ToJsString(oldMin) \o " to " \o ToJsString(newMin)>>
                 ELSE IF oldMin = JUndef /\ newMin # JUndef
                 THEN <<"Property '" \o prop \o "' added " \o minKey \o " constraint: "
                        \o ToJsString(newMin)>>
                 ELSE <<>>
            ELSE IF oldMin # JUndef /\ newMin # JUndef /\ GreaterThan(oldMin, newMin)
                 THEN <<"Property '" \o prop \o "' " \o minKey \o " decreased from "
                        \o ToJsString(oldMin) \o " to " \o ToJsString(newMin)>>
                 ELSE IF oldMin # JUndef /\ newMin = JUndef
                 THEN <<"Property '" \o prop \o "' removed " \o minKey \o " constraint">>
                 ELSE <<>>
        Maximum ==
            IF checkTightening
            THEN IF oldMax # JUndef /\ newMax # JUndef /\ GreaterThan(oldMax, newMax)
                 THEN <<"Property '" \o prop \o "' " \o maxKey \o " decreased from "
                        \o ToJsString(oldMax) \o " to " \o ToJsString(newMax)>>
                 ELSE IF oldMax = JUndef /\ newMax # JUndef
                 THEN <<"Property '" \o prop \o "' added " \o maxKey \o " constraint: "
                        \o ToJsString(newMax)>>
                 ELSE <<>>
            ELSE IF oldMax # JUndef /\ newMax # JUndef /\ GreaterThan(newMax, oldMax)
                 THEN <<"Property '" \o prop \o "' " \o maxKey \o " increased from "
                        \o ToJsString(oldMax) \o " to " \o ToJsString(newMax)>>
                 ELSE IF oldMax # JUndef /\ newMax = JUndef
                 THEN <<"Property '" \o prop \o "' removed " \o maxKey \o " constraint">>
                 ELSE <<>>
    IN  Minimum \o Maximum

\* GtsStore.checkConstraintCompatibility
checkConstraintCompatibility(prop, oldPropSchema, newPropSchema, checkTightening) ==
    LET propType == GetProp(oldPropSchema, "type")
    IN  (IF propType \in {JStr("number"), JStr("integer")}
         THEN checkMinMaxConstraint(prop, oldPropSchema, newPropSchema, "minimum", "maximum",
                                    checkTightening)
         ELSE <<>>)
        \o (IF propType = JStr("string")
            THEN checkMinMaxConstraint(prop, oldPropSchema, newPropSchema, "minLength", "maxLength",
                                       checkTightening)
            ELSE <<>>)
        \o (IF propType = JStr("array")
            THEN checkMinMaxConstraint(prop, oldPropSchema, newPropSchema, "minItems", "maxItems",
                                       checkTightening)
            ELSE <<>>)

\* GtsStore.checkSchemaCompatibility: the errors of the direction; the verdict
\* is that there are none
RECURSIVE checkSchemaCompatibility(_, _, _)
checkSchemaCompatibility(oldSchema, newSchema, checkBackward) ==
    LET oldFlat == flattenSchema(oldSchema)
        newFlat == flattenSchema(newSchema)
        oldProps == OrElse(GetProp(oldFlat, "properties"), EmptyObj)
        newProps == OrElse(GetProp(newFlat, "properties"), EmptyObj)
        oldRequired == StringItems(GetProp(oldFlat, "required"))
        newRequired == StringItems(GetProp(newFlat, "required"))
        In(list, p) == \E i \in 1..Len(list) : list[i] = p
        \* Array.from(new Set(list)).filter(p => !other.has(p))
        Missing(list, other) ==
            LET Keep(i) == ~In(other, list[i]) /\ \A j \in 1..(i - 1) : list[j] # list[i]
                RECURSIVE From(_)
                From(i) == IF i > Len(list) THEN <<>>
                           ELSE (IF Keep(i) THEN <<list[i]>> ELSE <<>>) \o From(i + 1)
            IN  From(1)
        Required ==
            IF checkBackward
            THEN IF Missing(newRequired, oldRequired) # <<>>
                 THEN <<"Added required properties: "
                        \o JoinFrom(Missing(newRequired, oldRequired), ", ", 1)>>
                 ELSE <<>>
            ELSE IF Missing(oldRequired, newRequired) # <<>>
                 THEN <<"Removed required properties: "
                        \o JoinFrom(Missing(oldRequired, newRequired), ", ", 1)>>
                 ELSE <<>>
        IsCommon(k) == HasProp(newProps, k)
        commonProps == SelectSeq(ObjectKeys(oldProps), IsCommon)
        Prefixed(prefix, errors) == [i \in 1..Len(errors) |-> prefix \o errors[i]]
        Values(items) == JoinFrom([i \in 1..Len(items) |-> ToJsString(items[i])], ", ", 1)
        Errors(prop) ==
            LET oldPropSchema == OrElse(oldProps.v[prop], EmptyObj)
                newPropSchema == OrElse(newProps.v[prop], EmptyObj)
                oldType == GetProp(oldPropSchema, "type")
                newType == GetProp(newPropSchema, "type")
                oldEnum == IF IsArr(GetProp(oldPropSchema, "enum")) THEN GetProp(oldPropSchema, "enum").v
                           ELSE <<>>
                newEnum == IF IsArr(GetProp(newPropSchema, "enum")) THEN GetProp(newPropSchema, "enum").v
                           ELSE <<>>
                NotInOld(v) == ~\E i \in 1..Len(oldEnum) : oldEnum[i] = v
                NotInNew(v) == ~\E i \in 1..Len(newEnum) : newEnum[i] = v
                Type ==
                    IF Truthy(oldType) /\ Truthy(newType)
                       /\ (oldType # newType \/ IsObjectLike(oldType))
                    THEN <<"Property '" \o prop \o "' type changed from " \o ToJsString(oldType)
                           \o " to " \o ToJsString(newType)>>
                    ELSE <<>>
                Enum ==
                    IF Len(oldEnum) > 0 /\ Len(newEnum) > 0
                    THEN IF checkBackward
                         THEN IF SelectSeq(newEnum, NotInOld) # <<>>
                              THEN <<"Property '" \o prop \o "' added enum values: "
                                     \o Values(SelectSeq(newEnum, NotInOld))>>
                              ELSE <<>>
                         ELSE IF SelectSeq(oldEnum, NotInNew) # <<>>
                              THEN <<"Property '" \o prop \o "' removed enum values: "
                                     \o Values(SelectSeq(oldEnum, NotInNew))>>
                              ELSE <<>>
                    ELSE <<>>
                Nested ==
                    IF oldType = JStr("object") /\ newType = JStr("object")
                    THEN Prefixed("Property '" \o prop \o "': ",
                                  checkSchemaCompatibility(oldPropSchema, newPropSchema, checkBackward))
                    ELSE <<>>
                Items ==
                    IF /\ oldType = JStr("array") /\ newType = JStr("array")
                       /\ Truthy(GetProp(oldPropSchema, "items")) /\ Truthy(GetProp(newPropSchema, "items"))
                    THEN Prefixed("Property '" \o prop \o "' array items: ",
                                  checkSchemaCompatibility(GetProp(oldPropSchema, "items"),
                                                           GetProp(newPropSchema, "items"), checkBackward))
                    ELSE <<>>
            IN  Type \o Enum
                \o checkConstraintCompatibility(prop, oldPropSchema, newPropSchema, checkBackward)
                \o Nested \o Items
    IN  Required \o Concat([i \in 1..Len(commonProps) |-> Errors(commonProps[i])], 1)

\* GtsStore.inferDirection
inferDirection(fromId, toId) ==
    LET Of(fromGtsId, toGtsId) ==
            IF ~fromGtsId.ok \/ ~toGtsId.ok THEN "unknown"
            ELSE IF Len(fromGtsId.segments) = 0 \/ Len(toGtsId.segments) = 0 THEN "unknown"
            ELSE LET fromSeg == fromGtsId.segments[Len(fromGtsId.segments)]
                     toSeg == toGtsId.segments[Len(toGtsId.segments)]
                 IN  IF fromSeg.verMinor # NoMinor /\ toSeg.verMinor # NoMinor
                     THEN IF toSeg.verMinor > fromSeg.verMinor THEN "up"
                          ELSE IF toSeg.verMinor < fromSeg.verMinor THEN "down"
                          ELSE "none"
                     ELSE "unknown"
    IN  Of(parseGtsID(fromId), parseGtsID(toId))

\* GtsStore.checkCompatibility
GtsStore_checkCompatibility(store, oldSchemaId, newSchemaId) ==
    LET Failure(error) ==
            [from |-> oldSchemaId, to |-> newSchemaId, direction |-> "unknown",
             is_fully_compatible |-> FALSE, is_backward_compatible |-> FALSE,
             is_forward_compatible |-> FALSE, incompatibility_reasons |-> <<>>,
             backward_errors |-> <<error>>, forward_errors |-> <<error>>]
        Verdict(backwardErrors, forwardErrors) ==
            [from |-> oldSchemaId, to |-> newSchemaId,
             direction |-> inferDirection(oldSchemaId, newSchemaId),
             is_fully_compatible |-> backwardErrors = <<>> /\ forwardErrors = <<>>,
             is_backward_compatible |-> backwardErrors = <<>>,
             is_forward_compatible |-> forwardErrors = <<>>,
             incompatibility_reasons |-> <<>>,
             backward_errors |-> backwardErrors, forward_errors |-> forwardErrors]
        Of(oldEntity, newEntity) ==
            IF oldEntity = <<>> \/ newEntity = <<>> THEN Failure("Schema not found")
            ELSE IF ~Truthy(oldEntity[1].content) \/ ~Truthy(newEntity[1].content)
            THEN Failure("Invalid schema content")
            ELSE Verdict(checkSchemaCompatibility(oldEntity[1].content, newEntity[1].content, TRUE),
                         checkSchemaCompatibility(oldEntity[1].content, newEntity[1].content, FALSE))
    IN  Of(get(store, oldSchemaId), get(store, newSchemaId))

\* gts.store.checkCompatibility(oldSchemaId, newSchemaId)
StoreCheckCompatibility(oldSchemaId, newSchemaId) ==
    /\ last' = [op |-> "store.checkCompatibility", oldId |-> oldSchemaId, newId |-> newSchemaId,
                outcome |-> "returned",
                result |-> GtsStore_checkCompatibility(byId, oldSchemaId, newSchemaId)]
    /\ UNCHANGED <<validateRefs, byId>>

\* the schema of a person under the identifier id: an age, a zip code in an
\* address, a list of tags and a kind
DocPerson(id, age, zip, tagItems, kind, required) ==
    JObj("$id" :> JStr(id) @@ "$schema" :> JStr(SCHEMA_URL) @@ "type" :> JStr("object")
         @@ "properties" :> JObj("age" :> age
                                 @@ "addr" :> JObj("type" :> JStr("object")
                                                   @@ "properties" :> JObj("zip" :> zip))
                                 @@ "tags" :> JObj("type" :> JStr("array") @@ "items" :> tagItems)
                                 @@ "kind" :> kind)
         @@ "required" :> JArr([i \in 1..Len(required) |-> JStr(required[i])]))

AgeInteger == JObj("type" :> JStr("integer") @@ "minimum" :> JNum(0) @@ "maximum" :> JNum(9))
ZipString == JObj("type" :> JStr("string") @@ "maxLength" :> JNum(5))
TagString == JObj("type" :> JStr("string"))
KindEnum == JObj("type" :> JStr("string") @@ "enum" :> JArr(<<JStr("x"), JStr("y")>>))

TypeP == "gts.a.b.c.p.v1.0~"

\* the person schema and its later minor versions, each with one change
PersonDocs ==
    {DocPerson(TypeP, AgeInteger, ZipString, TagString, KindEnum, <<"kind">>),
     \* age widened from integer to number
     DocPerson("gts.a.b.c.p.v1.1~", [AgeInteger EXCEPT !.v["type"] = JStr("number")],
               ZipString, TagString, KindEnum, <<"kind">>),
     \* the minimum of age raised, age required
     DocPerson("gts.a.b.c.p.v1.2~", [AgeInteger EXCEPT !.v["minimum"] = JNum(1)],
               ZipString, TagString, KindEnum, <<"kind", "age">>),
     \* the maxLength of the nested zip lowered
     DocPerson("gts.a.b.c.p.v1.3~", AgeInteger, [ZipString EXCEPT !.v["maxLength"] = JNum(3)],
               TagString, KindEnum, <<"kind">>),
     \* a minLength introduced for the items of tags, age a string
     DocPerson("gts.a.b.c.p.v1.4~", JObj("type" :> JStr("string")), ZipString,
               JObj("type" :> JStr("string") @@ "minLength" :> JNum(1)), KindEnum, <<"kind">>),
     \* one more enum value of kind, the maximum of age raised, nothing required
     DocPerson("gts.a.b.c.p.v1.5~", [AgeInteger EXCEPT !.v["maximum"] = JNum(10)], ZipString, TagString,
               JObj("type" :> JStr("string") @@ "enum" :> JArr(<<JStr("x"), JStr("y"), JStr("z")>>)),
               <<>>),
     DocInstE0}

PersonOldIds == {TypeP, InstE0}

PersonNewIds == {GetProp(doc, "$id").v : doc \in PersonDocs \ {DocInstE0}} \cup {InstE0, "hello"}

RegisterPersonDoc == \E content \in PersonDocs : Register(content)
StoreCheckCompatibilityOfIds ==
    \E oldId \in PersonOldIds, newId \in PersonNewIds : StoreCheckCompatibility(oldId, newId)

NextStoreCompat ==
    \/ RegisterPersonDoc
    \/ StoreCheckCompatibilityOfIds

\* the registry with the compatibility check of the store
SpecStoreCompat == Init /\ [][NextStoreCompat]_vars

\* the new schema breaks the old one in one of the ways of backward
\* incompatibility; neverBreaking are the pairs of types of which a change
\* from the first to the second does not count
RECURSIVE BreaksBackward(_, _, _)
BreaksBackward(oldSchema, newSchema, neverBreaking) ==
    LET oldFlat == flattenSchema(oldSchema)
        newFlat == flattenSchema(newSchema)
        oldProps == GetProp(oldFlat, "properties")
        newProps == GetProp(newFlat, "properties")
        Names(list) == {list[i] : i \in 1..Len(list)}
        Bound(old, new, minKey, maxKey) ==
            \/ GreaterThan(GetProp(new, minKey), GetProp(old, minKey))
            \/ GreaterThan(GetProp(old, maxKey), GetProp(new, maxKey))
            \/ GetProp(old, minKey) = JUndef /\ GetProp(new, minKey) # JUndef
            \/ GetProp(old, maxKey) = JUndef /\ GetProp(new, maxKey) # JUndef
        Property(old, new) ==
            LET oldType == GetProp(old, "type")
                newType == GetProp(new, "type")
            IN  \/ /\ IsStr(oldType) /\ IsStr(newType) /\ oldType # newType
                   /\ <<oldType.v, newType.v>> \notin neverBreaking
                \/ /\ IsArr(GetProp(old, "enum")) /\ IsArr(GetProp(new, "enum"))
                   /\ Names(GetProp(old, "enum").v) # {}
                   /\ Names(GetProp(new, "enum").v) \ Names(GetProp(old, "enum").v) # {}
                \/ oldType \in {JStr("number"), JStr("integer")} /\ Bound(old, new, "minimum", "maximum")
                \/ oldType = JStr("string") /\ Bound(old, new, "minLength", "maxLength")
                \/ oldType = JStr("array") /\ Bound(old, new, "minItems", "maxItems")
                \/ /\ oldType = JStr("object") /\ newType = JStr("object")
                   /\ BreaksBackward(old, new, neverBreaking)
                \/ /\ oldType = JStr("array") /\ newType = JStr("array")
                   /\ IsObj(GetProp(old, "items")) /\ IsObj(GetProp(new, "items"))
                   /\ BreaksBackward(GetProp(old, "items"), GetProp(new, "items"), neverBreaking)
    IN  \/ Names(StringItems(GetProp(newFlat, "required")))
              \ Names(StringItems(GetProp(oldFlat, "required"))) # {}
        \/ \E p \in DOMAIN oldProps.v \cap DOMAIN newProps.v :
              IsObj(oldProps.v[p]) /\ IsObj(newProps.v[p]) /\ Property(oldProps.v[p], newProps.v[p])

\* C27: GtsStore.checkCompatibility(old, new) of two registered schemas says
\* is_backward_compatible false exactly when the new schema requires a
\* property the old one did not, or a property of both changed its type other
\* than from integer to number, gained enum values, had a minimum raised, a
\* maximum lowered or a bound introduced, or a nested object property or the
\* array items did so; when an id does not name a registered schema, both
\* verdicts are false.
C27_StoreBackwardDiff ==
    last.op = "store.checkCompatibility" =>
        \A oldEntity \in {get(byId, last.oldId)}, newEntity \in {get(byId, last.newId)} :
            IF /\ oldEntity # <<>> /\ newEntity # <<>>
               /\ oldEntity[1].isSchema /\ newEntity[1].isSchema
            THEN ~last.result.is_backward_compatible
                    <=> BreaksBackward(oldEntity[1].content, newEntity[1].content,
                                       {<<"integer", "number">>})
            ELSE ~last.result.is_backward_compatible /\ ~last.result.is_forward_compatible

-----------------------------------------------------------------------------
(* The resolution of a relative x-gts-ref                                  *)

\* the frames of resolvePointer the call stack holds before the engine
\* throws its RangeError
MaxCallDepth == 5

\* the calls of resolvePointer that resolvePointer(schema, pointer) makes,
\* itself included, when depth is the number of its frame on the stack; above
\* MaxCallDepth when the stack overflows
RECURSIVE resolvePointerCalls(_, _, _)
resolvePointerCalls(schema, pointer, depth) ==
    LET path == IF StartsWith(pointer, "/") THEN Tail(pointer) ELSE pointer
        current == IF path = "" THEN JUndef ELSE PointerWalk(schema, Split(path, "/"), 1)
        xGtsRef == IF IsObj(current) THEN GetProp(current, "x-gts-ref") ELSE JUndef
    IN  IF ~(IsStr(xGtsRef) /\ StartsWith(xGtsRef.v, "/")) THEN 1
        ELSE IF depth = MaxCallDepth THEN 2
        ELSE 1 + resolvePointerCalls(schema, xGtsRef.v, depth + 1)

\* the calls of resolvePointer that validateRefValue(value, refPattern, '', schema)
\* makes; above MaxCallDepth when the stack overflows
validateRefValueCalls(refPattern, schema) ==
    IF ~StartsWith(refPattern, "/") THEN 0
    ELSE LET first == resolvePointerCalls(schema, refPattern, 1)
         IN  IF first > MaxCallDepth THEN first
             ELSE LET resolved == resolvePointer(schema, refPattern)
                  IN  IF StartsWith(resolved, "/")
                      THEN first + resolvePointerCalls(schema, resolved, 1)
                      ELSE first

\* what a property of the schema can be: an object with a pattern or a pointer
\* as x-gts-ref, a string that is a pointer, a plain property
PointerNodes ==
    {XRef("gts.*"), XRef("/$id"), XRef("/properties/a"), XRef("/properties/b"), XRef("/properties/c"),
     JStr("/properties/b"), JObj("type" :> JStr("string"))}

PointerSchemas ==
    {JObj("$id" :> JStr(GTS_URI_PREFIX \o TypeA) @@ "$schema" :> JStr(SCHEMA_URL)
          @@ "type" :> JStr("object")
          @@ "properties" :> JObj("a" :> a @@ "b" :> b @@ "c" :> c)) :
        a \in PointerNodes, b \in PointerNodes, c \in PointerNodes}

Pointers == {"/$id", "/properties/a", "/properties/b", "/properties/c", "/properties/d"}

\* a schema is given
InitPointer ==
    /\ validateRefs = FALSE
    /\ byId = <<>>
    /\ last \in {[op |-> "given", schema |-> schema] : schema \in PointerSchemas}

\* validateRefValue(TypeA, refPattern, '', schema) of the validator of an empty registry
ValidateRefValue(refPattern) ==
    /\ last.op = "given"
    /\ \E calls \in {validateRefValueCalls(refPattern, last.schema)} :
          last' = IF calls > MaxCallDepth
                  THEN [op |-> "validateRefValue", schema |-> last.schema, refPattern |-> refPattern,
                        calls |-> calls, outcome |-> "thrown",
                        error |-> "RangeError: Maximum call stack size exceeded"]
                  ELSE [op |-> "validateRefValue", schema |-> last.schema, refPattern |-> refPattern,
                        calls |-> calls, outcome |-> "returned",
                        result |-> validateRefValue(byId, TypeA, JStr(refPattern), "", last.schema)]
    /\ UNCHANGED <<validateRefs, byId>>

ValidateRefValueOfPointer == \E refPattern \in Pointers : ValidateRefValue(refPattern)

NextPointer == ValidateRefValueOfPointer

\* the x-gts-ref check of a value against the relative references of a schema
SpecPointer == InitPointer /\ [][NextPointer]_vars

\* C28: the resolution of a relative x-gts-ref returns after at most two
\* pointer lookups, for every schema, also one whose pointers form a cycle or
\* a chain of three or more.
C28_PointerResolutionBounded ==
    last.op = "validateRefValue" => last.outcome = "returned" /\ last.calls <= 2

-----------------------------------------------------------------------------
(* The relationships of an entity                                          *)

\* gts.store.resolveRelationships(id)
StoreResolveRelationships(id) ==
    /\ \E built \in {GtsStore_resolveRelationships(byId, id)} :
          last' = [op |-> "store.resolveRelationships", arg |-> id, outcome |-> "returned",
                   result |-> built.node, expanded |-> built.expanded]
    /\ UNCHANGED <<validateRefs, byId>>

\* two schemas that refer to each other, an instance that refers to its own
\* schema twice and to another instance, and that instance
DocRelA ==
    JObj("$id" :> JStr(TypeA) @@ "$schema" :> JStr(SCHEMA_URL) @@ "type" :> JStr("object")
         @@ "properties" :> JObj("peer" :> XRef(OtherType)))
DocRelX ==
    JObj("$id" :> JStr(OtherType) @@ "$schema" :> JStr(SCHEMA_URL) @@ "type" :> JStr("object")
         @@ "properties" :> JObj("back" :> JObj("x-gts-ref" :> JStr(TypeA)
                                                @@ "$ref" :> JStr(GTS_URI_PREFIX \o TypeA))))
DocRelE ==
    JObj("gtsId" :> JStr(InstE0)
         @@ "kind" :> JObj("x-gts-ref" :> JStr(TypeA) @@ "$ref" :> JStr(GTS_URI_PREFIX \o OtherType))
         @@ "friends" :> JArr(<<JObj("$ref" :> JStr(InstH1)), JObj("$ref" :> JStr(TypeA))>>))

RelDocs == {DocRelA, DocRelX, DocRelE, DocInstH1}

RelIds == {TypeA, OtherType, InstE0, InstH1, "hello"}

RegisterRelDoc == \E content \in RelDocs : Register(content)
ResolveRelationshipsOfId == \E id \in RelIds : ResolveRelationships(id)
StoreResolveRelationshipsOfId == \E id \in RelIds : StoreResolveRelationships(id)

NextRel ==
    \/ RegisterRelDoc
    \/ ResolveRelationshipsOfId
    \/ StoreResolveRelationshipsOfId

\* the registry with the two views of the relationships of an entity
SpecRel == Init /\ [][NextRel]_vars

\* C29: the relationships that GtsRelationships.resolveRelationships returns
\* for a registered entity are in ascending order without duplicates and
\* contain the schema id of the entity; brokenReferences are, in that order,
\* exactly the relationships that are not registered at the time of the call;
\* the graph view GtsStore.resolveRelationships returns for every registry,
\* cycles included, and looks no id up twice.
C29_RelationshipViews ==
    /\ (last.op = "resolveRelationships" /\ MapHas(byId, last.arg)) =>
          LET rel == last.result.relationships
              broken == last.result.brokenReferences
              entity == byId[CHOOSE i \in 1..Len(byId) : byId[i].id = last.arg]
              IsMissing(ref) == ~\E i \in 1..Len(byId) : byId[i].id = ref
          IN  /\ \A i \in 1..Len(rel), j \in 1..Len(rel) : i < j => StringLess(rel[i], rel[j])
              /\ entity.schemaId # None => \E i \in 1..Len(rel) : rel[i] = entity.schemaId[1]
              /\ broken = SelectSeq(rel, IsMissing)
    /\ last.op = "store.resolveRelationships" =>
          /\ last.outcome = "returned"
          /\ \A i \in 1..Len(last.expanded), j \in 1..Len(last.expanded) :
                i # j => last.expanded[i] # last.expanded[j]

\* the relationships of an entity were resolved of which one is registered
\* and another is not
C29_Witness ==
    /\ last.op = "resolveRelationships"
    /\ Len(last.result.relationships) >= 3
    /\ last.result.brokenReferences # <<>>
    /\ last.result.brokenReferences # last.result.relationships

-----------------------------------------------------------------------------
(* The entry points of identifier validity                                 *)

\* C30: isValidGtsID(x), validateGtsID(x).ok and the acceptance of x by
\* parseGtsID are equal for every x, surrounding whitespace included, and for
\* an accepted x idToUUID(x) returns a non-empty uuid that is the uuid of the
\* canonical text of the identifier.
C30_ValidityEntryPointsAgree ==
    last.op \in {"isValidGtsID", "validateGtsID", "idToUUID"} =>
        \A parsed \in {parseGtsID(last.arg)} :
            /\ last.op = "isValidGtsID" => last.result = parsed.ok
            /\ last.op = "validateGtsID" => last.result.ok = parsed.ok
            /\ (last.op = "idToUUID" /\ parsed.ok) =>
                  /\ last.result.uuid # ""
                  /\ last.result.uuid = toUUID(parsed.id)

====
